---------------------------- MODULE Spec2Model ----------------------------
(***************************************************************************)
(* The checkpointed batch importers of lighthouse-network:                 *)
(*   apps/web/scripts/bubble_import.py            (candidates)             *)
(*   apps/web/scripts/bubble_import_avatars.py    (avatars)                *)
(*   apps/web/scripts/bubble_import_documents.py  (documents)              *)
(* One importer process at a time reads a CSV row by row, keeps a          *)
(* checkpoint dict and an error list in memory and writes both to disk     *)
(* every CheckpointInterval rows and at the end of the run.  A process can *)
(* be killed at any position; a later process starts from the files.       *)
(***************************************************************************)
EXTENDS Integers, Sequences, FiniteSets, TLC

(* ------------------------------ bounds -------------------------------- *)

\* Longest CSV (data rows) the model reads.
MaxRows == 2

\* Number of importer processes started one after the other.
MaxRuns == 2

\* CHECKPOINT_INTERVAL is 100 in bubble_import.py:55 and 50 in
\* bubble_import_avatars.py:54 and bubble_import_documents.py:54.  The model
\* keeps the cadence (row_num % interval = 0) at an interval that inputs of
\* MaxRows rows cross.
CheckpointInterval == 2

\* fetch_recent_vincere_candidates: PAGE_SIZE is 100 and MAX_OFFSET 9900
\* (bubble_import.py:220-221), and a page without a new e-mail ends the fetch
\* once the offset is past 1000 (line 250).  The model keeps the three tests
\* at sizes a few pages cross.
PAGE_SIZE == 2

MAX_OFFSET == 4

QuietOffset == 2

\* Number of calls of build_vincere_email_map, one after the other.
MaxBuilds == 2

\* Number of calls of VincereClient.get on one client.
MaxGets == 2

\* fetch_all_jobs: page_size is 25 (pull-vincere-jobs.py:158); the model pages
\* by less.  MaxTotal is the largest `total` the server reports.
JobsPageSize == 2

MaxTotal == 5

\* fetch_all_placements: the longest jobs_to_check.
MaxJobsToCheck == 3

\* Longest text, in characters, given to the range parsers (the examples of
\* RangeExamples are longer).
MaxTextLen == 4

\* Longest text, in words and word parts, given to
\* normalize_availability_status.
MaxStatusParts == 2

\* Rows an upload loop takes to its store calls.
MaxHandled == 2

(* --------------------------- input values ----------------------------- *)

\* csv.DictReader fills the columns a short row lacks with None.
None == "None"

\* The script whose importer runs.
Jobs == {"candidates", "avatars", "documents"}

\* The Vincere pull scripts: pull-vincere-jobs.py, pull-vincere-placements.py.
PullScripts == {"pull_jobs", "pull_placements"}

\* Natural keys (lower-cased, stripped emails) of the candidates table.
Keys == {"a"}

\* Rows of the Bubble candidates CSV: the "email" column and the text columns
\* ("Name First", "Name Last", "Phone Number", "Gender", ...) that
\* map_bubble_to_candidate dereferences, all read as `name`.
CandidateRows ==
    { [email |-> None, name |-> None, url |-> ""],
      [email |-> "",   name |-> "x",  url |-> ""],
      [email |-> "A ", name |-> "x",  url |-> ""],
      [email |-> "a",  name |-> None, url |-> ""] }

\* Rows of the avatar importer's CSV: the "email" and "Avatar" columns.
AvatarRows ==
    { [email |-> None, name |-> None, url |-> None],
      [email |-> "",   name |-> "x",  url |-> "//u"],
      [email |-> "A ", name |-> "x",  url |-> ""],
      [email |-> "A ", name |-> "x",  url |-> "//u"] }

\* Rows of the documents CSV: the "Candidate" and "Document File" columns.
DocumentRows ==
    { [email |-> None, name |-> None, url |-> None],
      [email |-> "",   name |-> "x",  url |-> "//u"],
      [email |-> "A ", name |-> "x",  url |-> "s3"],
      [email |-> "A ", name |-> "x",  url |-> "//u"] }

RowsOf(j) ==
    CASE j = "candidates" -> CandidateRows
      [] j = "avatars"    -> AvatarRows
      [] OTHER            -> DocumentRows

\* --limit: absent (None, written 0: `if limit` is false for both) or N.
Limits == {0, 1}

(* ------------------------- pure helper functions ---------------------- *)

\* str.lower().strip() on the e-mail values of the model.
LowerStrip(s) ==
    CASE s = "A "  -> "a"
      [] s = "A"   -> "a"
      [] s = " "   -> ""
      [] OTHER     -> s

\* str.strip() alone (the avatar and document importers do not lower-case the
\* e-mail before testing it).
Strip(s) ==
    CASE s = "A "  -> "A"
      [] s = " "   -> ""
      [] OTHER     -> s

\* normalize_url: "" for None and "", "https:" before a leading "//".
normalize_url(u) ==
    CASE u = None  -> ""
      [] u = "//u" -> "https://u"
      [] OTHER     -> u

\* `"s3.eu-central-1.amazonaws.com" in doc_url`
IsExpiredS3(u) == u = "s3"

\* `if row_num <= start_row: continue`
AlreadyProcessedOffByOne(n, start) == n < start
AlreadyProcessed(n, start) == n <= start

\* `if limit and row_num > start_row + limit: break`
LimitReachedLate(n, start, lim) == lim # 0 /\ n > start + lim + 1
LimitReached(n, start, lim) == lim # 0 /\ n > start + lim

\* `if row_num % CHECKPOINT_INTERVAL == 0`
IsCheckpointRow(n) == n % CheckpointInterval = 0

\* map_bubble_to_candidate raises AttributeError when a text column it calls
\* .strip()/.lower()/.replace()/.split() on was read as None.
TransformNeverRaises(row) == FALSE
TransformRaises(row) == row.name = None

\* The dict load_checkpoint builds when there is no checkpoint file, and the
\* one import_* builds for resume=False.  uploaded_count belongs to the avatar
\* and document scripts, imported_count/updated_count to the candidate script;
\* a key a script does not have stays 0.  A timestamp key that is absent is 0.
FreshCheckpoint(now) ==
    [ last_processed_row |-> 0,
      imported_count     |-> 0,
      updated_count      |-> 0,
      uploaded_count     |-> 0,
      skipped_count      |-> 0,
      error_count        |-> 0,
      started_at         |-> now,
      updated_at         |-> 0,
      completed_at       |-> 0 ]

\* A file on disk: <<>> when it does not exist, <<content>> when it does.
NoFile == <<>>

load_checkpoint_forgets(file, now) == FreshCheckpoint(now)
load_checkpoint(file, now) == IF file = NoFile THEN FreshCheckpoint(now) ELSE file[1]

\* A plausible bug: the errors of earlier runs are not read back.
load_errors_forgets(file) == <<>>

\* load_errors (bubble_import.py:185-190)
load_errors(file) == IF file = NoFile THEN <<>> ELSE file[1]

\* upsert_candidate: the outcome for a candidate with e-mail `email` against
\* the candidates table `tbl` (the keys present).  `fault` says whether a call
\* to the store raises ("store") or none does ("none").
upsert_action(tbl, email, fault) ==
    IF email = "" THEN "skipped"
    ELSE IF fault # "none" THEN "error"
    ELSE IF email \in tbl THEN "updated"
    ELSE "inserted"

upsert_table(tbl, email, fault) ==
    IF upsert_action(tbl, email, fault) = "inserted" THEN tbl \cup {email} ELSE tbl

Faults == {"none", "store"}

\* A lookup whose select leaves photo_url out.
get_candidate_by_email_without_photo(c, tbl, ph, key, fault) ==
    IF c[key] # "unset" THEN c[key]
    ELSE IF fault = "lookup" THEN "none"
    ELSE IF key \notin tbl THEN "none"
    ELSE "found"

\* get_candidate_by_email: the value returned (and cached) for `key`, given the
\* process's _candidate_cache `c`, the candidates table and the keys that have
\* a photo_url.  "none": None; "found": a record without photo_url; "photo":
\* a record with one.  A query that raises yields None.
get_candidate_by_email(c, tbl, ph, key, fault) ==
    IF c[key] # "unset" THEN c[key]
    ELSE IF fault = "lookup" THEN "none"
    ELSE IF key \notin tbl THEN "none"
    ELSE IF key \in ph THEN "photo"
    ELSE "found"

EmptyCache == [k \in Keys |-> "unset"]

\* Where an external call of the avatar importer fails for a row, among
\* "lookup", "download", "upload" and "update": the failures the model draws.
AvatarFaults == {"none", "lookup", "update"}

\* The same for the document importer, among "lookup", "download", "upload"
\* and "record".
DocumentFaults == {"none", "lookup", "record"}

\* The error text the importers log for a failed step.
ErrorText(fault) ==
    CASE fault = "download" -> "Failed to download"
      [] fault = "upload"   -> "Failed to upload to storage"
      [] fault = "update"   -> "Failed to update candidate photo_url"
      [] fault = "record"   -> "Failed to create document record"
      [] OTHER              -> fault

(* ------------------------------- state -------------------------------- *)

VARIABLES
    job,              \* the script
    csv,              \* the data rows of the input CSV
    table,            \* candidates table: the keys present
    photo,            \* candidates table: the keys whose photo_url is set
    cache,            \* _candidate_cache of the process
    checkpoint_file,  \* CHECKPOINT_FILE
    error_log_file,   \* ERROR_LOG_FILE
    pc,               \* position of the importer process ("idle": none runs)
    resume, limit, dry_run,   \* arguments of the running import_*
    start_row,
    row_num,
    checkpoint,       \* the checkpoint dict of the process
    errors,           \* the errors list of the process
    runs,             \* processes started so far; datetime.now() of a run
    ended,            \* how the loop ended: "" | "eof" | "limit"
    exit,             \* how the last process ended
    prev,             \* at a start: how the process before ended, the file it left
    calls,            \* upsert_candidate calls per row since the last fresh start
    run_calls,        \* rows passed to upsert_candidate by this process
    touched,          \* rows this process decided an outcome for
    decided,          \* rows decided in the lineage of the in-memory checkpoint
    decided_on_disk,  \* the same for the checkpoint file
    last,             \* the last thing the loop did: [op, row]
    candidates,       \* candidates table, record by record: [id, email, vincere_id, first_name]
    vincere_map,      \* the e-mail -> Vincere id map build_vincere_email_map returned
    outcome,          \* the last call of upsert_candidate: what it was given and did
    bucket,           \* Supabase Storage: the paths at which a blob is stored
    blob_writes,      \* Supabase Storage: the blobs written, per path
    upload,           \* the last call of upload_to_storage: what it was given and did
    map_file,         \* VINCERE_MAP_FILE
    email_map,        \* build_vincere_email_map: the mapping it builds and returns
    mpc,              \* position of build_vincere_email_map
    offset,           \* fetch_recent_vincere_candidates: the start offset
    build,            \* what the builds did so far, the running one last
    client,           \* the script whose VincereClient this is
    token,            \* VincereClient: the cached token ("none", "valid", "expired")
    get,              \* VincereClient.get: the call in progress, or the last one
    gets,             \* calls of VincereClient.get so far
    jpc,              \* position of fetch_all_jobs
    start,            \* fetch_all_jobs: the start offset
    all_jobs,         \* fetch_all_jobs: the jobs collected
    total,            \* fetch_all_jobs: `total`, <<>> for None, <<n>> for the number n
    paged,            \* fetch_all_jobs: what its pagination loop did
    ppc,              \* position of fetch_all_placements
    job_index,        \* fetch_all_placements: the job of the jobs file it is at
    placing,          \* fetch_all_placements: its counters and what it did to each job
    range_text,       \* the value given to the range parsers
    parsed,           \* what the range parsers returned for it
    documents,        \* documents table: the records, in the order of their insertion
    photo_url,        \* candidates table: the photo_url of each candidate id
    handled,          \* the last row an upload loop took to its store calls
    tally,            \* uploaded_count and error_count of that loop's checkpoint
    status_text,      \* the value given to normalize_availability_status
    normalized        \* what normalize_availability_status returned for it

vars == << job, csv, table, photo, cache, checkpoint_file, error_log_file, pc, resume, limit,
           dry_run, start_row, row_num, checkpoint, errors, runs, ended, exit,
           prev, calls, run_calls, touched, decided, decided_on_disk, last,
           candidates, vincere_map, outcome, bucket, blob_writes, upload,
           map_file, email_map, mpc, offset, build, client, token, get, gets,
           jpc, start, all_jobs, total, paged, ppc, job_index, placing, range_text, parsed,
           documents, photo_url, handled, tally, status_text, normalized >>

input  == << job, csv >>
store  == << table, photo >>
disk   == << checkpoint_file, error_log_file, decided_on_disk >>
args   == << resume, limit, dry_run, start_row >>
detail == << candidates, vincere_map, outcome >>
blobs  == << bucket, blob_writes, upload >>
mapping == << map_file, email_map, mpc, offset, build >>
importer == << job, csv, table, photo, cache, checkpoint_file, error_log_file, pc, resume,
               limit, dry_run, start_row, row_num, checkpoint, errors, runs, ended, exit,
               prev, calls, run_calls, touched, decided, decided_on_disk, last, detail >>

session == << client, token, get, gets >>
paging  == << jpc, start, all_jobs, total, paged >>
placements == << ppc, job_index, placing >>
parsing == << range_text, parsed >>
rowwork == << documents, photo_url, handled, tally >>
normalizing == << status_text, normalized >>
\* What the importer loops leave alone.
aside  == << blobs, mapping, session, paging, placements, parsing, rowwork, normalizing >>

\* What each of the smaller specifications leaves alone.
not_blobs      == << importer, mapping, session, paging, placements, parsing, rowwork, normalizing >>
not_mapping    == << importer, blobs, session, paging, placements, parsing, rowwork, normalizing >>
not_session    == << importer, blobs, mapping, paging, placements, parsing, rowwork, normalizing >>
not_paging     == << importer, blobs, mapping, session, placements, parsing, rowwork, normalizing >>
not_placements == << importer, blobs, mapping, session, paging, parsing, rowwork, normalizing >>
not_parsing    == << importer, blobs, mapping, session, paging, placements, rowwork, normalizing >>
not_rowwork    == << importer, blobs, mapping, session, paging, placements, parsing, normalizing >>
not_normalizing == << importer, blobs, mapping, session, paging, placements, parsing, rowwork >>

\* datetime.now(): later processes read later times.
Now == runs

Positions == 1..(MaxRows + 1)

\* No call of upsert_candidate was made yet.
NoOutcome == [action |-> "none"]

NoCalls == [p \in Positions |-> 0]

CsvsOf(rows) == UNION { [1..n -> rows] : n \in 1..MaxRows }

\* No call of upload_to_storage was made yet.
NoUpload == [result |-> "none"]

\* The storage bucket is empty and untouched.
BlobsIdle ==
    /\ bucket = {}
    /\ blob_writes = <<>>
    /\ upload = NoUpload

\* build_vincere_email_map was not called and the cache file does not exist.
MappingIdle ==
    /\ map_file = NoFile
    /\ email_map = <<>>
    /\ mpc = "idle"
    /\ offset = 0
    /\ build = <<>>

\* No call of VincereClient.get was made yet.
NoGet == [state |-> "none"]

\* No VincereClient was made.
SessionIdle ==
    /\ client = "none"
    /\ token = "none"
    /\ get = NoGet
    /\ gets = 0

\* fetch_all_jobs was not called.
PagingIdle ==
    /\ jpc = "idle"
    /\ start = 0
    /\ all_jobs = <<>>
    /\ total = <<>>
    /\ paged = <<>>

\* fetch_all_placements was not called.
PlacementsIdle ==
    /\ ppc = "idle"
    /\ job_index = 0
    /\ placing = <<>>

\* No text was parsed.
ParsingIdle ==
    /\ range_text = <<>>
    /\ parsed = <<>>

\* No row was taken to the store calls of an upload loop.
NoRowHandled == [row |-> 0]

RowworkIdle ==
    /\ documents = <<>>
    /\ photo_url = <<>>
    /\ handled = NoRowHandled
    /\ tally = <<>>

NormalizingIdle ==
    /\ status_text = <<>>
    /\ normalized = <<>>

AsideIdle ==
    /\ RowworkIdle
    /\ NormalizingIdle
    /\ BlobsIdle
    /\ MappingIdle
    /\ SessionIdle
    /\ PagingIdle
    /\ PlacementsIdle
    /\ ParsingIdle

\* No importer process runs and none has run.
ImporterIdle ==
    /\ job = "candidates"
    /\ csv = <<>>
    /\ table = {} /\ photo = {}
    /\ cache = EmptyCache
    /\ checkpoint_file = NoFile
    /\ error_log_file = NoFile
    /\ pc = "idle"
    /\ resume = TRUE /\ limit = 0 /\ dry_run = FALSE
    /\ start_row = 0
    /\ row_num = 0
    /\ checkpoint = FreshCheckpoint(0)
    /\ errors = <<>>
    /\ runs = 0
    /\ ended = ""
    /\ exit = "none"
    /\ prev = [exit |-> "none", file |-> NoFile]
    /\ calls = NoCalls
    /\ run_calls = {}
    /\ touched = {}
    /\ decided = {}
    /\ decided_on_disk = {}
    /\ last = [op |-> "none", row |-> 0]
    /\ candidates = {}
    /\ vincere_map = <<>>
    /\ outcome = NoOutcome

Init ==
    /\ job \in Jobs \cup PullScripts
    /\ csv \in IF job \in Jobs THEN CsvsOf(RowsOf(job)) ELSE {<<>>}
    /\ table \in IF job \in Jobs THEN SUBSET Keys ELSE {{}}
    /\ photo \in IF job = "avatars" THEN SUBSET table ELSE {{}}
    /\ cache = EmptyCache
    /\ checkpoint_file = NoFile
    /\ error_log_file = NoFile
    /\ pc = "idle"
    /\ resume = TRUE /\ limit = 0 /\ dry_run = FALSE
    /\ start_row = 0
    /\ row_num = 0
    /\ checkpoint = FreshCheckpoint(0)
    /\ errors = <<>>
    /\ runs = 0
    /\ ended = ""
    /\ exit = "none"
    /\ prev = [exit |-> "none", file |-> NoFile]
    /\ calls = NoCalls
    /\ run_calls = {}
    /\ touched = {}
    /\ decided = {}
    /\ decided_on_disk = {}
    /\ last = [op |-> "none", row |-> 0]
    /\ candidates = {}
    /\ vincere_map = <<>>
    /\ outcome = NoOutcome
    /\ AsideIdle

(* ------------------------------ actions ------------------------------- *)

\* A plausible bug: the files are loaded whatever `resume` says.
StartLoadsTheFiles(r, l, d) ==
    /\ job \in Jobs
    /\ pc = "idle"
    /\ runs < MaxRuns
    /\ runs' = runs + 1
    /\ resume' = r /\ limit' = l /\ dry_run' = d
    /\ checkpoint' = load_checkpoint(checkpoint_file, runs + 1)
    /\ errors' = load_errors(error_log_file)
    /\ start_row' = checkpoint'.last_processed_row
    /\ row_num' = 0
    /\ pc' = "loop"
    /\ ended' = ""
    /\ prev' = [exit |-> exit, file |-> checkpoint_file]
    /\ calls' = IF r THEN calls ELSE NoCalls
    /\ decided' = IF r THEN decided_on_disk ELSE {}
    /\ run_calls' = {}
    /\ touched' = {}
    /\ last' = [op |-> "start", row |-> 0]
    /\ UNCHANGED << input, detail, aside, store, cache, disk, exit >>

\* import_candidates / import_avatars / import_documents up to the loop:
\* load (or build) the checkpoint and the error list, start_row, row_num = 0.
Start(r, l, d) ==
    /\ job \in Jobs
    /\ pc = "idle"
    /\ runs < MaxRuns
    /\ runs' = runs + 1
    /\ resume' = r /\ limit' = l /\ dry_run' = d
    /\ checkpoint' = IF r THEN load_checkpoint(checkpoint_file, runs + 1)
                          ELSE FreshCheckpoint(runs + 1)
    /\ errors' = IF r THEN load_errors(error_log_file) ELSE <<>>
    /\ start_row' = checkpoint'.last_processed_row
    /\ row_num' = 0
    /\ pc' = "loop"
    /\ ended' = ""
    /\ prev' = [exit |-> exit, file |-> checkpoint_file]
    /\ calls' = IF r THEN calls ELSE NoCalls
    /\ decided' = IF r THEN decided_on_disk ELSE {}
    /\ run_calls' = {}
    /\ touched' = {}
    /\ last' = [op |-> "start", row |-> 0]
    /\ UNCHANGED << input, detail, aside, store, cache, disk, exit >>

\* What main() and import_* find when they start: whether the CSV exists and
\* whether NEXT_PUBLIC_SUPABASE_URL and SUPABASE_SERVICE_ROLE_KEY are both set.
Envs == [csv_exists : BOOLEAN, credentials : BOOLEAN]

\* main(): `if not candidates_csv.exists(): ... sys.exit(1)`; import_*:
\* `supabase = get_supabase_client() if not dry_run else None`, which ends the
\* process with sys.exit(1) when a credential is missing.
SetupOk(e, d) == e.csv_exists /\ (d \/ e.credentials)

\* A setup check that runs only after the loop and its final save.
FatalSetupAfterTheLoop(d, e) ==
    /\ job \in Jobs
    /\ pc = "idle"
    /\ runs < MaxRuns
    /\ ~SetupOk(e, d)
    /\ runs' = runs + 1
    /\ exit' = "fatal"
    /\ checkpoint_file' = << [load_checkpoint(checkpoint_file, runs + 1)
                               EXCEPT !.completed_at = runs + 1, !.updated_at = runs + 1] >>
    /\ UNCHANGED << input, detail, aside, store, cache, error_log_file, decided_on_disk, pc, args,
                    row_num, checkpoint, errors, ended, prev, calls, run_calls, touched,
                    decided, last >>

\* A bubble import script started where the setup fails: the process ends with
\* sys.exit(1) before the loop is entered; no file is written.
FatalSetup(d, e) ==
    /\ job \in Jobs
    /\ pc = "idle"
    /\ runs < MaxRuns
    /\ ~SetupOk(e, d)
    /\ runs' = runs + 1
    /\ exit' = "fatal"
    /\ UNCHANGED << input, detail, aside, store, cache, disk, pc, args, row_num, checkpoint, errors,
                    ended, prev, calls, run_calls, touched, decided, last >>

\* What main() of a Vincere pull script finds: whether VINCERE_CLIENT_ID,
\* VINCERE_API_KEY and VINCERE_REFRESH_TOKEN are all set, and whether the
\* --jobs-file (read by pull-vincere-placements.py only) exists.
PullEnvs == [credentials : BOOLEAN, jobs_file : BOOLEAN]

PullSetupOk(j, e) == e.credentials /\ (j = "pull_placements" => e.jobs_file)

\* main() of a pull script where the setup fails: VincereClient() raises
\* ValueError, which main() catches, prints and answers with `return`;
\* fetch_all_placements returns [] for a missing jobs file and main() returns.
PullSetupFails(e) ==
    /\ job \in PullScripts
    /\ pc = "idle"
    /\ runs < MaxRuns
    /\ ~PullSetupOk(job, e)
    /\ runs' = runs + 1
    /\ exit' = "fatal"
    /\ UNCHANGED << input, detail, aside, store, cache, disk, pc, args, row_num, checkpoint, errors,
                    ended, prev, calls, run_calls, touched, decided, last >>

\* main() of a pull script run to its end ("Done!").
PullCompletes(e) ==
    /\ job \in PullScripts
    /\ pc = "idle"
    /\ runs < MaxRuns
    /\ PullSetupOk(job, e)
    /\ runs' = runs + 1
    /\ exit' = "returned"
    /\ UNCHANGED << input, detail, aside, store, cache, disk, pc, args, row_num, checkpoint, errors,
                    ended, prev, calls, run_calls, touched, decided, last >>

\* The exit code of a process of script j that ended `how`: 1 for sys.exit(1)
\* and for an exception that leaves main(), 0 when main() returns.
ExitCode(j, how) ==
    CASE how = "aborted"              -> 1
      [] how = "fatal" /\ j \in Jobs -> 1
      [] OTHER                        -> 0

\* The row the loop reads next.
NextRow == row_num + 1

InLoop == pc = "loop" /\ row_num < Len(csv)

\* The row is one this process handles (neither skipped as processed nor
\* beyond the limit).
Handles(n) ==
    /\ ~AlreadyProcessed(n, start_row)
    /\ ~LimitReached(n, start_row, limit)

\* `if row_num <= start_row: continue`
SkipProcessed ==
    /\ InLoop
    /\ AlreadyProcessed(NextRow, start_row)
    /\ row_num' = NextRow
    /\ UNCHANGED << input, detail, aside, store, cache, disk, pc, args, checkpoint, errors, runs, ended,
                    exit, prev, calls, run_calls, touched, decided, last >>

\* `if limit and row_num > start_row + limit: break`
LimitBreak ==
    /\ InLoop
    /\ ~AlreadyProcessed(NextRow, start_row)
    /\ LimitReached(NextRow, start_row, limit)
    /\ row_num' = NextRow
    /\ pc' = "final_checkpoint"
    /\ ended' = "limit"
    /\ UNCHANGED << input, detail, aside, store, cache, disk, args, checkpoint, errors, runs,
                    exit, prev, calls, run_calls, touched, decided, last >>

\* The for loop is exhausted.
EndOfInput ==
    /\ pc = "loop"
    /\ row_num = Len(csv)
    /\ pc' = "final_checkpoint"
    /\ ended' = "eof"
    /\ UNCHANGED << input, detail, aside, store, cache, disk, args, row_num, checkpoint, errors, runs,
                    exit, prev, calls, run_calls, touched, decided, last >>

\* The in-memory state of a process that is gone.
Gone(how) ==
    /\ pc' = "idle"
    /\ exit' = how
    /\ resume' = TRUE /\ limit' = 0 /\ dry_run' = FALSE
    /\ start_row' = 0
    /\ row_num' = 0
    /\ checkpoint' = FreshCheckpoint(0)
    /\ errors' = <<>>
    /\ cache' = EmptyCache
    /\ ended' = ""
    /\ prev' = [exit |-> "none", file |-> NoFile]
    /\ run_calls' = {}
    /\ touched' = {}
    /\ decided' = {}
    /\ last' = [op |-> "none", row |-> 0]

\* `row.get("email", "").lower().strip()` (candidates), `row.get("email",
\* "").strip()` (avatars) and `row.get("Candidate", "").strip()` (documents) on
\* a row whose column was read as None: AttributeError, outside every try
\* block, so the process ends with a traceback.
Abort ==
    /\ InLoop
    /\ Handles(NextRow)
    /\ csv[NextRow].email = None
    /\ Gone("aborted")
    /\ UNCHANGED << input, detail, aside, store, disk, runs, calls >>

\* bubble_import.py: `if not email: checkpoint["skipped_count"] += 1; continue`
CandSkipNoEmail ==
    /\ job = "candidates"
    /\ InLoop
    /\ Handles(NextRow)
    /\ csv[NextRow].email # None
    /\ LowerStrip(csv[NextRow].email) = ""
    /\ row_num' = NextRow
    /\ checkpoint' = [checkpoint EXCEPT !.skipped_count = @ + 1]
    /\ touched' = touched \cup {NextRow}
    /\ decided' = decided \cup {NextRow}
    /\ last' = [op |-> "skip_no_email", row |-> NextRow]
    /\ UNCHANGED << input, detail, aside, store, cache, disk, pc, args, errors, runs, ended, exit, prev,
                    calls, run_calls >>

\* bubble_import.py: map_bubble_to_candidate raised.
CandTransformError ==
    /\ job = "candidates"
    /\ InLoop
    /\ Handles(NextRow)
    /\ csv[NextRow].email # None
    /\ LowerStrip(csv[NextRow].email) # ""
    /\ TransformRaises(csv[NextRow])
    /\ row_num' = NextRow
    /\ checkpoint' = [checkpoint EXCEPT !.error_count = @ + 1]
    /\ errors' = Append(errors, [row |-> NextRow,
                                 email |-> LowerStrip(csv[NextRow].email),
                                 error |-> "transform"])
    /\ touched' = touched \cup {NextRow}
    /\ decided' = decided \cup {NextRow}
    /\ last' = [op |-> "transform_error", row |-> NextRow]
    /\ UNCHANGED << input, detail, aside, store, cache, disk, pc, args, runs, ended, exit, prev,
                    calls, run_calls >>

AfterRowAhead(cp) ==
    /\ row_num' = NextRow
    /\ checkpoint' = [cp EXCEPT !.last_processed_row = NextRow + 1]
    /\ pc' = IF IsCheckpointRow(NextRow) THEN "save_checkpoint" ELSE "loop"
    /\ touched' = touched \cup {NextRow}
    /\ decided' = decided \cup {NextRow}

\* What the loop does after the row's counter was updated:
\* `checkpoint["last_processed_row"] = row_num`, then the periodic save.
AfterRow(cp) ==
    /\ row_num' = NextRow
    /\ checkpoint' = [cp EXCEPT !.last_processed_row = NextRow]
    /\ pc' = IF IsCheckpointRow(NextRow) THEN "save_checkpoint" ELSE "loop"
    /\ touched' = touched \cup {NextRow}
    /\ decided' = decided \cup {NextRow}

\* bubble_import.py: `action, error = upsert_candidate(supabase, candidate)`
\* and the counter of its action.
CandUpsert(fault) ==
    /\ job = "candidates"
    /\ InLoop
    /\ Handles(NextRow)
    /\ csv[NextRow].email # None
    /\ LowerStrip(csv[NextRow].email) # ""
    /\ ~TransformRaises(csv[NextRow])
    /\ ~dry_run
    /\ LET email  == LowerStrip(csv[NextRow].email)
           action == upsert_action(table, email, fault)
       IN /\ table' = upsert_table(table, email, fault)
          /\ AfterRow(CASE action = "inserted" -> [checkpoint EXCEPT !.imported_count = @ + 1]
                        [] action = "updated"  -> [checkpoint EXCEPT !.updated_count = @ + 1]
                        [] action = "skipped"  -> [checkpoint EXCEPT !.skipped_count = @ + 1]
                        [] OTHER               -> [checkpoint EXCEPT !.error_count = @ + 1])
          /\ errors' = IF action = "error"
                       THEN Append(errors, [row |-> NextRow, email |-> email, error |-> fault])
                       ELSE errors
          /\ last' = [op |-> action, row |-> NextRow]
    /\ calls' = [calls EXCEPT ![NextRow] = @ + 1]
    /\ run_calls' = run_calls \cup {NextRow}
    /\ UNCHANGED << input, detail, aside, photo, cache, disk, args, runs, ended, exit, prev >>

\* A dry run that passes the record to the store all the same.
CandDryRunUpserts ==
    /\ job = "candidates"
    /\ InLoop
    /\ Handles(NextRow)
    /\ csv[NextRow].email # None
    /\ LowerStrip(csv[NextRow].email) # ""
    /\ ~TransformRaises(csv[NextRow])
    /\ dry_run
    /\ table' = upsert_table(table, LowerStrip(csv[NextRow].email), "none")
    /\ AfterRow([checkpoint EXCEPT !.imported_count = @ + 1])
    /\ last' = [op |-> "dry_run", row |-> NextRow]
    /\ calls' = [calls EXCEPT ![NextRow] = @ + 1]
    /\ UNCHANGED << input, detail, aside, photo, cache, disk, args, errors, runs, ended, exit, prev,
                    run_calls >>

\* A plausible bug: a dry run that counts the row and leaves
\* last_processed_row where it was.
CandDryRunKeepsPosition ==
    /\ job = "candidates"
    /\ InLoop
    /\ Handles(NextRow)
    /\ csv[NextRow].email # None
    /\ LowerStrip(csv[NextRow].email) # ""
    /\ ~TransformRaises(csv[NextRow])
    /\ dry_run
    /\ row_num' = NextRow
    /\ checkpoint' = [checkpoint EXCEPT !.imported_count = @ + 1]
    /\ pc' = IF IsCheckpointRow(NextRow) THEN "save_checkpoint" ELSE "loop"
    /\ touched' = touched \cup {NextRow}
    /\ decided' = decided \cup {NextRow}
    /\ last' = [op |-> "dry_run", row |-> NextRow]
    /\ UNCHANGED << input, detail, aside, store, cache, disk, args, errors, runs, ended, exit, prev,
                    calls, run_calls >>

\* bubble_import.py, dry run: `checkpoint["imported_count"] += 1`
CandDryRun ==
    /\ job = "candidates"
    /\ InLoop
    /\ Handles(NextRow)
    /\ csv[NextRow].email # None
    /\ LowerStrip(csv[NextRow].email) # ""
    /\ ~TransformRaises(csv[NextRow])
    /\ dry_run
    /\ AfterRow([checkpoint EXCEPT !.imported_count = @ + 1])
    /\ last' = [op |-> "dry_run", row |-> NextRow]
    /\ UNCHANGED << input, detail, aside, store, cache, disk, args, errors, runs, ended, exit, prev,
                    calls, run_calls >>

\* A plausible bug: the `continue` of a skipped or failed row leaves
\* last_processed_row where it was.
ContinueAtForgetsPosition(cp) ==
    /\ row_num' = NextRow
    /\ checkpoint' = cp
    /\ touched' = touched \cup {NextRow}
    /\ decided' = decided \cup {NextRow}

\* A `continue` of the avatar and document loops that first sets
\* `checkpoint["last_processed_row"] = row_num`: no periodic save follows.
ContinueAt(cp) ==
    /\ row_num' = NextRow
    /\ checkpoint' = [cp EXCEPT !.last_processed_row = NextRow]
    /\ touched' = touched \cup {NextRow}
    /\ decided' = decided \cup {NextRow}

\* A `continue` that leaves last_processed_row alone.
Continue(cp) ==
    /\ row_num' = NextRow
    /\ checkpoint' = cp
    /\ touched' = touched \cup {NextRow}
    /\ decided' = decided \cup {NextRow}

\* The row has an e-mail and a usable URL: the importer goes on to the
\* candidate lookup (or counts the row, in a dry run).
HasWork(j) ==
    /\ job = j
    /\ InLoop
    /\ Handles(NextRow)
    /\ csv[NextRow].email # None
    /\ Strip(csv[NextRow].email) # ""
    /\ normalize_url(csv[NextRow].url) # ""
    /\ j = "documents" => ~IsExpiredS3(normalize_url(csv[NextRow].url))

RowKey == LowerStrip(csv[NextRow].email)

Lookup(fault) == get_candidate_by_email(cache, table, photo, RowKey, fault)

ErrorEntry(text) == [row |-> NextRow, email |-> Strip(csv[NextRow].email), error |-> text]

(* ---- bubble_import_avatars.py ---- *)

\* `if not candidate_email:` skipped_count, last_processed_row, continue
AvSkipNoEmail ==
    /\ job = "avatars"
    /\ InLoop
    /\ Handles(NextRow)
    /\ csv[NextRow].email # None
    /\ Strip(csv[NextRow].email) = ""
    /\ ContinueAt([checkpoint EXCEPT !.skipped_count = @ + 1])
    /\ last' = [op |-> "skip_no_email", row |-> NextRow]
    /\ UNCHANGED << input, detail, aside, store, cache, disk, pc, args, errors, runs, ended, exit,
                    prev, calls, run_calls >>

\* `if not avatar_url:` skipped_count, last_processed_row, continue
AvSkipNoAvatar ==
    /\ job = "avatars"
    /\ InLoop
    /\ Handles(NextRow)
    /\ csv[NextRow].email # None
    /\ Strip(csv[NextRow].email) # ""
    /\ normalize_url(csv[NextRow].url) = ""
    /\ ContinueAt([checkpoint EXCEPT !.skipped_count = @ + 1])
    /\ last' = [op |-> "skip_no_url", row |-> NextRow]
    /\ UNCHANGED << input, detail, aside, store, cache, disk, pc, args, errors, runs, ended, exit,
                    prev, calls, run_calls >>

\* `if dry_run:` uploaded_count
AvDryRun ==
    /\ HasWork("avatars")
    /\ dry_run
    /\ AfterRow([checkpoint EXCEPT !.uploaded_count = @ + 1])
    /\ last' = [op |-> "dry_run", row |-> NextRow]
    /\ UNCHANGED << input, detail, aside, store, cache, disk, args, errors, runs, ended, exit, prev,
                    calls, run_calls >>

\* `if not candidate:` skipped_count, an error entry, last_processed_row, continue
AvNotFound(fault) ==
    /\ HasWork("avatars")
    /\ ~dry_run
    /\ Lookup(fault) = "none"
    /\ cache' = [cache EXCEPT ![RowKey] = "none"]
    /\ ContinueAt([checkpoint EXCEPT !.skipped_count = @ + 1])
    /\ errors' = Append(errors, ErrorEntry("Candidate not found in database"))
    /\ last' = [op |-> "not_found", row |-> NextRow]
    /\ UNCHANGED << input, detail, aside, store, disk, pc, args, runs, ended, exit, prev,
                    calls, run_calls >>

\* `if candidate.get("photo_url"):` skipped_count, last_processed_row, continue
AvHasPhoto(fault) ==
    /\ HasWork("avatars")
    /\ ~dry_run
    /\ Lookup(fault) = "photo"
    /\ cache' = [cache EXCEPT ![RowKey] = "photo"]
    /\ ContinueAt([checkpoint EXCEPT !.skipped_count = @ + 1])
    /\ last' = [op |-> "has_photo", row |-> NextRow]
    /\ UNCHANGED << input, detail, aside, store, disk, pc, args, errors, runs, ended, exit, prev,
                    calls, run_calls >>

\* download_file, upload_to_storage or update_candidate_photo_url failed:
\* error_count, an error entry, last_processed_row, continue
AvError(fault) ==
    /\ HasWork("avatars")
    /\ ~dry_run
    /\ Lookup(fault) = "found"
    /\ fault \in {"download", "upload", "update"}
    /\ cache' = [cache EXCEPT ![RowKey] = "found"]
    /\ ContinueAt([checkpoint EXCEPT !.error_count = @ + 1])
    /\ errors' = Append(errors, ErrorEntry(ErrorText(fault)))
    /\ last' = [op |-> "error", row |-> NextRow]
    /\ UNCHANGED << input, detail, aside, store, disk, pc, args, runs, ended, exit, prev,
                    calls, run_calls >>

\* The avatar was downloaded and uploaded and photo_url updated: uploaded_count
AvUploaded(fault) ==
    /\ HasWork("avatars")
    /\ ~dry_run
    /\ Lookup(fault) = "found"
    /\ fault \notin {"download", "upload", "update"}
    /\ cache' = [cache EXCEPT ![RowKey] = "found"]
    /\ photo' = photo \cup {RowKey}
    /\ AfterRow([checkpoint EXCEPT !.uploaded_count = @ + 1])
    /\ last' = [op |-> "uploaded", row |-> NextRow]
    /\ UNCHANGED << input, detail, aside, table, disk, args, errors, runs, ended, exit, prev,
                    calls, run_calls >>

(* ---- bubble_import_documents.py ---- *)

\* Why the document loop skips the row before any lookup ("": it does not).
DocSkipReason(row) ==
    IF Strip(row.email) = "" THEN "skip_no_email"
    ELSE IF normalize_url(row.url) = "" THEN "skip_no_url"
    ELSE IF IsExpiredS3(normalize_url(row.url)) THEN "skip_expired_s3"
    ELSE ""

\* No candidate e-mail, no document URL or an expired S3 URL:
\* skipped_count, last_processed_row, continue
DocSkip ==
    /\ job = "documents"
    /\ InLoop
    /\ Handles(NextRow)
    /\ csv[NextRow].email # None
    /\ DocSkipReason(csv[NextRow]) # ""
    /\ ContinueAt([checkpoint EXCEPT !.skipped_count = @ + 1])
    /\ last' = [op |-> DocSkipReason(csv[NextRow]), row |-> NextRow]
    /\ UNCHANGED << input, detail, aside, store, cache, disk, pc, args, errors, runs, ended, exit,
                    prev, calls, run_calls >>

\* `if dry_run:` uploaded_count
DocDryRun ==
    /\ HasWork("documents")
    /\ dry_run
    /\ AfterRow([checkpoint EXCEPT !.uploaded_count = @ + 1])
    /\ last' = [op |-> "dry_run", row |-> NextRow]
    /\ UNCHANGED << input, detail, aside, store, cache, disk, args, errors, runs, ended, exit, prev,
                    calls, run_calls >>

\* `if not candidate:` skipped_count, an error entry, continue
DocNotFound(fault) ==
    /\ HasWork("documents")
    /\ ~dry_run
    /\ Lookup(fault) = "none"
    /\ cache' = [cache EXCEPT ![RowKey] = "none"]
    /\ Continue([checkpoint EXCEPT !.skipped_count = @ + 1])
    /\ errors' = Append(errors, ErrorEntry("Candidate not found in database"))
    /\ last' = [op |-> "not_found", row |-> NextRow]
    /\ UNCHANGED << input, detail, aside, store, disk, pc, args, runs, ended, exit, prev,
                    calls, run_calls >>

\* download_file, upload_to_storage or create_document_record failed:
\* error_count, an error entry, continue
DocError(fault) ==
    /\ HasWork("documents")
    /\ ~dry_run
    /\ Lookup(fault) = "found"
    /\ fault \in {"download", "upload", "record"}
    /\ cache' = [cache EXCEPT ![RowKey] = "found"]
    /\ Continue([checkpoint EXCEPT !.error_count = @ + 1])
    /\ errors' = Append(errors, ErrorEntry(ErrorText(fault)))
    /\ last' = [op |-> "error", row |-> NextRow]
    /\ UNCHANGED << input, detail, aside, store, disk, pc, args, runs, ended, exit, prev,
                    calls, run_calls >>

\* The document was downloaded, uploaded and recorded: uploaded_count
DocUploaded(fault) ==
    /\ HasWork("documents")
    /\ ~dry_run
    /\ Lookup(fault) = "found"
    /\ fault \notin {"download", "upload", "record"}
    /\ cache' = [cache EXCEPT ![RowKey] = "found"]
    /\ AfterRow([checkpoint EXCEPT !.uploaded_count = @ + 1])
    /\ last' = [op |-> "uploaded", row |-> NextRow]
    /\ UNCHANGED << input, detail, aside, store, disk, args, errors, runs, ended, exit, prev,
                    calls, run_calls >>

(* ---- the saves, common to the three scripts ---- *)

\* save_checkpoint(checkpoint)
save_checkpoint(cp) ==
    /\ checkpoint' = [cp EXCEPT !.updated_at = Now]
    /\ checkpoint_file' = << checkpoint' >>
    /\ decided_on_disk' = decided

\* The periodic save, first file.
SaveCheckpoint ==
    /\ pc = "save_checkpoint"
    /\ save_checkpoint(checkpoint)
    /\ pc' = "save_errors"
    /\ UNCHANGED << input, detail, aside, store, cache, error_log_file, args, row_num, errors, runs, ended,
                    exit, prev, calls, run_calls, touched, decided, last >>

\* The periodic save, second file: save_errors(errors).
SaveErrors ==
    /\ pc = "save_errors"
    /\ error_log_file' = << errors >>
    /\ pc' = "loop"
    /\ UNCHANGED << input, detail, aside, store, cache, checkpoint_file, decided_on_disk, args, row_num,
                    checkpoint, errors, runs, ended, exit, prev, calls, run_calls,
                    touched, decided, last >>

\* After the loop: `checkpoint["completed_at"] = now; save_checkpoint(checkpoint)`
FinalSaveCheckpoint ==
    /\ pc = "final_checkpoint"
    /\ save_checkpoint([checkpoint EXCEPT !.completed_at = Now])
    /\ pc' = "final_errors"
    /\ UNCHANGED << input, detail, aside, store, cache, error_log_file, args, row_num, errors, runs, ended,
                    exit, prev, calls, run_calls, touched, decided, last >>

\* After the loop: save_errors(errors), the summary, `return checkpoint`.
FinalSaveErrors ==
    /\ pc = "final_errors"
    /\ error_log_file' = << errors >>
    /\ Gone(ended)
    /\ UNCHANGED << input, detail, aside, store, checkpoint_file, decided_on_disk, runs, calls >>

\* The process is killed (SIGINT/SIGKILL) wherever it is.
Kill ==
    /\ pc # "idle"
    /\ Gone("killed")
    /\ UNCHANGED << input, detail, aside, store, disk, runs, calls >>

Next ==
    \/ \E r \in BOOLEAN, l \in Limits, d \in BOOLEAN : Start(r, l, d)
    \/ \E d \in BOOLEAN, e \in Envs : FatalSetup(d, e)
    \/ \E e \in PullEnvs : PullSetupFails(e)
    \/ \E e \in PullEnvs : PullCompletes(e)
    \/ SkipProcessed
    \/ LimitBreak
    \/ EndOfInput
    \/ Abort
    \/ CandSkipNoEmail
    \/ CandTransformError
    \/ \E f \in Faults : CandUpsert(f)
    \/ CandDryRun
    \/ AvSkipNoEmail
    \/ AvSkipNoAvatar
    \/ AvDryRun
    \/ \E f \in AvatarFaults : AvNotFound(f)
    \/ \E f \in AvatarFaults : AvHasPhoto(f)
    \/ \E f \in AvatarFaults : AvError(f)
    \/ \E f \in AvatarFaults : AvUploaded(f)
    \/ DocSkip
    \/ DocDryRun
    \/ \E f \in DocumentFaults : DocNotFound(f)
    \/ \E f \in DocumentFaults : DocError(f)
    \/ \E f \in DocumentFaults : DocUploaded(f)
    \/ SaveCheckpoint
    \/ SaveErrors
    \/ FinalSaveCheckpoint
    \/ FinalSaveErrors
    \/ Kill

Spec == Init /\ [][Next]_vars

(* ------- upsert_candidate against the candidates table, record by record ------- *)

\* E-mail addresses as sequences of characters, so that the store's pattern
\* match is computed character by character.
Lower(c) ==
    CASE c = "J" -> "j"
      [] c = "D" -> "d"
      [] c = "A" -> "a"
      [] c = "N" -> "n"
      [] c = "U" -> "u"
      [] OTHER   -> c

\* str.lower()
lower(s) == [i \in 1..Len(s) |-> Lower(s[i])]

\* str.strip()
RECURSIVE strip(_)
strip(s) ==
    IF s = <<>> THEN s
    ELSE IF Head(s) = " " THEN strip(Tail(s))
    ELSE IF s[Len(s)] = " " THEN strip(SubSeq(s, 1, Len(s) - 1))
    ELSE s

\* The "email" column of the rows this specification reads.
CsvEmails == { <<"J", "_", "D", " ">>, <<"j", ".", "d">> }

\* The keys import_candidates derives from them: `.lower().strip()`.
MappedEmails == { lower(strip(e)) : e \in CsvEmails }

UpsertRows == { [email |-> e, name |-> "new", url |-> ""] : e \in CsvEmails }

\* The e-mails of the records the candidates table holds before the import
\* (records other sources wrote are not lower-cased), by record id.
StoredEmailOf == << <<"J", "_", "D">>, <<"j", ".", "d">> >>

StoredRecord(i, v) ==
    [id |-> i, email |-> StoredEmailOf[i], vincere_id |-> v, first_name |-> "old"]

InitialTables ==
    { { StoredRecord(i, f[i]) : i \in { j \in DOMAIN StoredEmailOf : f[j] # "absent" } } :
        f \in [DOMAIN StoredEmailOf -> {"absent", None, "V1"}] }

\* vincere_map: the values are non-empty ids (load_vincere_map_from_csv and
\* fetch_recent_vincere_candidates add no other); None: the key is absent.
VincereMaps == [MappedEmails -> {None, "V2"}]

\* A plausible bug: `.like("email", email)`, SQL LIKE, which tells the cases
\* of a letter apart.
like(pattern, value) ==
    /\ Len(pattern) = Len(value)
    /\ \A i \in 1..Len(pattern) :
          pattern[i] = "_" \/ pattern[i] = value[i]

\* `.ilike("email", email)`: PostgREST passes the value to SQL ILIKE as the
\* pattern: letters match whatever their case, "_" matches any one character
\* ("%" and "*" match any run of characters; no e-mail of the model holds one).
ilike(pattern, value) ==
    /\ Len(pattern) = Len(value)
    /\ \A i \in 1..Len(pattern) :
          pattern[i] = "_" \/ Lower(pattern[i]) = Lower(value[i])

\* `result.data`: the rows the select returns.
Matches(tbl, email) == { r \in tbl : ilike(email, r.email) }

\* `result.data[0]` when the select returned nothing.
NoRecord == [id |-> 0]

\* map_bubble_to_candidate, the keys upsert_candidate reads or writes.  An
\* e-mail is a sequence here: `email if email else None` is written <<>>, which
\* `if not email` of upsert_candidate treats as it treats None.
map_bubble_to_candidate(row, vincere_id) ==
    [ vincere_id |-> vincere_id,
      first_name |-> row.name,
      email      |-> lower(strip(row.email)) ]

\* `if existing.get("vincere_id") and not candidate.get("vincere_id")`
MergeVincereIdOverwrites(existing, cand) == cand.vincere_id
MergeVincereId(existing, cand) ==
    IF existing.vincere_id \notin {None, ""} /\ cand.vincere_id \in {None, ""}
    THEN existing.vincere_id
    ELSE cand.vincere_id

\* The id the store gives an inserted record.
NextId(tbl) == Len(StoredEmailOf) + 1 + Cardinality({ r \in tbl : r.id > Len(StoredEmailOf) })

\* The store call of upsert_candidate that raises, if it is reached.
UpsertFaults == {"none", "select", "update", "insert"}

\* Whether a store call of upsert_candidate is inside its try block.
InTrySelectOnly(step) == step = "select"
InTry(step) == TRUE

\* What upsert_candidate does when the store call `step` raises: `except
\* Exception as e: return ("error", str(e))` inside the try block, out of the
\* function otherwise.
Thrown(step, tbl) ==
    [ action |-> IF InTry(step) THEN "error" ELSE "raised",
      error  |-> step,
      thrown |-> step,
      table  |-> tbl,
      target |-> 0 ]

\* upsert_candidate(supabase, candidate), `existing` being result.data[0]
\* (NoRecord when the select returned no row).
upsert_candidate(tbl, cand, existing, fault) ==
    IF cand.email = <<>>
    THEN [action |-> "skipped", error |-> "No email", thrown |-> "", table |-> tbl, target |-> 0]
    ELSE IF fault = "select" THEN Thrown("select", tbl)
    ELSE IF existing # NoRecord
    THEN IF fault = "update" THEN Thrown("update", tbl)
         ELSE [ action |-> "updated", error |-> None, thrown |-> "",
                table  |-> (tbl \ {existing}) \cup
                           { [existing EXCEPT !.vincere_id = MergeVincereId(existing, cand),
                                              !.first_name = cand.first_name] },
                target |-> existing.id ]
    ELSE IF fault = "insert" THEN Thrown("insert", tbl)
         ELSE [ action |-> "inserted", error |-> None, thrown |-> "",
                table  |-> tbl \cup { [ id |-> NextId(tbl), email |-> cand.email,
                                        vincere_id |-> cand.vincere_id,
                                        first_name |-> cand.first_name ] },
                target |-> NextId(tbl) ]

\* One import_candidates process, resume=False, not a dry run, at the top of
\* its loop over a CSV whose rows all carry an e-mail; the bookkeeping of Spec
\* (calls, touched, decided, ...) is not kept here.
UpsertInit ==
    /\ job = "candidates"
    /\ csv \in CsvsOf(UpsertRows)
    /\ candidates \in InitialTables
    /\ vincere_map \in VincereMaps
    /\ outcome = NoOutcome
    /\ table = {} /\ photo = {}
    /\ cache = EmptyCache
    /\ checkpoint_file = NoFile
    /\ error_log_file = NoFile
    /\ pc = "loop"
    /\ resume = FALSE /\ limit = 0 /\ dry_run = FALSE
    /\ start_row = 0
    /\ row_num = 0
    /\ runs = 1
    /\ checkpoint = FreshCheckpoint(1)
    /\ errors = <<>>
    /\ ended = ""
    /\ exit = "none"
    /\ prev = [exit |-> "none", file |-> NoFile]
    /\ calls = NoCalls
    /\ run_calls = {}
    /\ touched = {}
    /\ decided = {}
    /\ decided_on_disk = {}
    /\ last = [op |-> "start", row |-> 0]
    /\ AsideIdle

\* import_candidates, one iteration of the loop for a row with an e-mail
\* (lines 692-741): the Vincere id, the mapped record, upsert_candidate, the
\* counter of its action, last_processed_row and the periodic save.  An
\* exception upsert_candidate lets out ends import_candidates.
UpsertRow(fault) ==
    /\ InLoop
    /\ LET row      == csv[NextRow]
           email    == lower(strip(row.email))
           cand     == map_bubble_to_candidate(row, vincere_map[email])
           found    == Matches(candidates, cand.email)
       IN \E existing \in (IF found = {} THEN {NoRecord} ELSE found) :
            LET res == upsert_candidate(candidates, cand, existing, fault)
                cp  == [ CASE res.action = "inserted" -> [checkpoint EXCEPT !.imported_count = @ + 1]
                           [] res.action = "updated"  -> [checkpoint EXCEPT !.updated_count = @ + 1]
                           [] res.action = "skipped"  -> [checkpoint EXCEPT !.skipped_count = @ + 1]
                           [] OTHER                   -> [checkpoint EXCEPT !.error_count = @ + 1]
                         EXCEPT !.last_processed_row = NextRow ]
                errs == IF res.action \in {"inserted", "updated", "skipped"} THEN errors
                        ELSE Append(errors, [row |-> NextRow, email |-> email, error |-> res.error])
            IN /\ candidates' = res.table
               /\ outcome' = [ action |-> res.action, error |-> res.error, thrown |-> res.thrown,
                               target |-> res.target, candidate |-> cand,
                               existing |-> existing, before |-> candidates ]
               /\ IF res.action = "raised"
                  THEN /\ pc' = "idle"
                       /\ exit' = "aborted"
                       /\ UNCHANGED << row_num, checkpoint, errors, disk >>
                  ELSE /\ row_num' = NextRow
                       /\ errors' = errs
                       /\ checkpoint' = IF IsCheckpointRow(NextRow)
                                        THEN [cp EXCEPT !.updated_at = Now] ELSE cp
                       /\ checkpoint_file' = IF IsCheckpointRow(NextRow)
                                             THEN << checkpoint' >> ELSE checkpoint_file
                       /\ error_log_file' = IF IsCheckpointRow(NextRow)
                                            THEN << errs >> ELSE error_log_file
                       /\ UNCHANGED << pc, exit, decided_on_disk >>
    /\ UNCHANGED << input, aside, vincere_map, store, cache, args, runs, ended, prev, calls,
                    run_calls, touched, decided, last >>

\* import_candidates after the loop (lines 749-770): completed_at, the final
\* save of both files, `return checkpoint`.
UpsertFinish ==
    /\ pc = "loop"
    /\ row_num = Len(csv)
    /\ checkpoint' = [checkpoint EXCEPT !.completed_at = Now, !.updated_at = Now]
    /\ checkpoint_file' = << checkpoint' >>
    /\ error_log_file' = << errors >>
    /\ pc' = "idle"
    /\ exit' = "eof"
    /\ UNCHANGED << input, detail, aside, store, cache, args, row_num, errors, runs, ended, prev,
                    calls, run_calls, touched, decided, decided_on_disk, last >>

UpsertNext ==
    \/ \E f \in UpsertFaults : UpsertRow(f)
    \/ UpsertFinish

UpsertSpec == UpsertInit /\ [][UpsertNext]_vars

(* --------- upload_to_storage against the Supabase Storage bucket --------- *)

\* Storage paths "<candidate id>/<file name>": path.rsplit("/", 1).
Folders   == {"c1", "c2"}
FileNames == {"a.jpg", "b.pdf"}
Paths     == [folder : Folders, name : FileNames]

\* What .list(folder) does: every file of the folder, the first page of a
\* longer folder (the file may be missing from it), or an exception.
Listings == {"complete", "truncated", "raises"}

\* What the transport does to .upload(...), and whether another writer stored
\* the blob between the listing and the upload.
UploadFaults == {"none", "timeout"}

\* The names .list(folder) returns.
list(bkt, folder, listing) ==
    CASE listing = "complete"  -> { p.name : p \in { q \in bkt : q.folder = folder } }
      [] listing = "truncated" -> {}
      [] OTHER                 -> {}

\* str(e) of the exceptions .upload(...) raises, word by word.
DuplicateTexts == { <<"Duplicate">>, <<"The", "resource", "already", "exists">> }
TimeoutText    == <<"The", "read", "operation", "timed", "out">>

\* str.lower() of a word.
LowerWord(w) ==
    CASE w = "Duplicate" -> "duplicate"
      [] w = "The"       -> "the"
      [] OTHER           -> w

LowerText(t) == [i \in 1..Len(t) |-> LowerWord(t[i])]

\* `words in text`: the words occur in the text, one after the other.
Contains(text, words) ==
    \E i \in 0..(Len(text) - Len(words)) :
        \A k \in 1..Len(words) : text[i + k] = words[k]

\* A plausible bug: the test without .lower().
IsDuplicateErrorCaseSensitive(text) ==
    \/ Contains(text, <<"already", "exists">>)
    \/ Contains(text, <<"duplicate">>)

\* "already exists" in str(e).lower() or "duplicate" in str(e).lower()
IsDuplicateError(text) ==
    \/ Contains(LowerText(text), <<"already", "exists">>)
    \/ Contains(LowerText(text), <<"duplicate">>)

\* .upload(path, content, {"content-type": ...}) without upsert: the store
\* writes the blob at a free path and rejects an occupied one as a duplicate.
\* The result: [wrote, raised (the text of the exception, <<>> if none)].
StoreUpload(bkt, path, fault, text) ==
    CASE fault = "timeout" -> [wrote |-> FALSE, raised |-> TimeoutText]
      [] path \in bkt      -> [wrote |-> FALSE, raised |-> text]
      [] OTHER             -> [wrote |-> TRUE,  raised |-> <<>>]

BlobInit ==
    /\ ImporterIdle
    /\ RowworkIdle /\ NormalizingIdle
    /\ MappingIdle /\ SessionIdle /\ PagingIdle /\ PlacementsIdle /\ ParsingIdle
    /\ bucket \in SUBSET Paths
    /\ blob_writes = [p \in Paths |-> IF p \in bucket THEN 1 ELSE 0]
    /\ upload = NoUpload

\* upload_to_storage(supabase, bucket, path, content, content_type), the whole
\* call: the listing inside its own try/except, the upload, the outer except.
\* `raced`: another writer stored the blob after the listing.
upload_to_storage(path, listing, raced, fault, text) ==
    LET shown    == listing # "raises" /\ path.name \in list(bucket, path.folder, listing)
        at_store == IF raced THEN bucket \cup {path} ELSE bucket
        res      == StoreUpload(at_store, path, fault, text)
        now      == IF shown THEN bucket
                    ELSE IF res.wrote THEN at_store \cup {path} ELSE at_store
    IN  /\ bucket' = now
        /\ blob_writes' = [p \in Paths |->
                              IF p \in now /\ p \notin bucket THEN blob_writes[p] + 1
                              ELSE blob_writes[p]]
        /\ upload' = [ path     |-> path,
                       existed  |-> path \in bucket,
                       shown    |-> shown,
                       uploads  |-> IF shown THEN 0 ELSE 1,
                       rejected |-> ~shown /\ res.raised \in DuplicateTexts,
                       wrote    |-> ~shown /\ res.wrote,
                       result   |-> IF shown THEN TRUE
                                    ELSE IF res.raised = <<>> THEN TRUE
                                    ELSE IsDuplicateError(res.raised) ]
        /\ UNCHANGED not_blobs

BlobNext ==
    \E path \in Paths, listing \in Listings, raced \in BOOLEAN,
       fault \in UploadFaults, text \in DuplicateTexts :
        upload_to_storage(path, listing, raced, fault, text)

BlobSpec == BlobInit /\ [][BlobNext]_vars

(* ------- build_vincere_email_map and fetch_recent_vincere_candidates ------- *)

\* The "primary_email" of the items the Vincere search returns (<<>>: none).
ApiEmails == { <<"J">>, <<"j", " ">>, <<"d">>, <<>> }

\* The "id" of the items, an integer in the JSON answer.
ApiIds == {1, 2}

\* str(item["id"])
Str(n) == CASE n = 1 -> "1" [] n = 2 -> "2" [] OTHER -> "n"

ApiItems == [primary_email : ApiEmails, id : ApiIds]

\* result["result"]["items"] of one page: at most PAGE_SIZE items.
ApiPages == UNION { [1..n -> ApiItems] : n \in 0..PAGE_SIZE }

\* The Vincere CSV export build_vincere_email_map is given: no file, a file
\* without data rows, a file with one row.
VincereRow  == [primary_email |-> <<"J", " ">>, candidate_id |-> "7"]
VincereCsvs == { NoFile, << <<>> >>, << <<VincereRow>> >> }

\* load_vincere_map_from_csv (lines 201-216): later rows overwrite earlier ones.
RECURSIVE load_vincere_map_from_csv(_)
load_vincere_map_from_csv(rows) ==
    IF rows = <<>> THEN <<>>
    ELSE LET before == load_vincere_map_from_csv(SubSeq(rows, 1, Len(rows) - 1))
             row    == rows[Len(rows)]
             email  == strip(lower(row.primary_email))
         IN  IF email # <<>> /\ row.candidate_id # ""
             THEN [k \in DOMAIN before \cup {email} |->
                      IF k = email THEN row.candidate_id ELSE before[k]]
             ELSE before

\* load_vincere_map (lines 173-178)
load_vincere_map(file) == IF file = NoFile THEN <<>> ELSE file[1]

\* `if cached_map:` (line 270): a dict is true when it has an entry.
Truthy(m) == DOMAIN m # {}

\* A plausible bug: `existing_map[email] = str(item["id"])` whether the e-mail
\* is in the mapping or not.
AddItemOverwrites(m, item) ==
    LET email == strip(lower(item.primary_email))
    IN  IF email # <<>>
        THEN [k \in DOMAIN m \cup {email} |-> IF k = email THEN Str(item.id) ELSE m[k]]
        ELSE m

\* fetch_recent_vincere_candidates, the body of `for item in items` (lines 236-241).
AddItem(m, item) ==
    LET email == strip(lower(item.primary_email))
    IN  IF email # <<>> /\ email \notin DOMAIN m
        THEN [k \in DOMAIN m \cup {email} |-> IF k = email THEN Str(item.id) ELSE m[k]]
        ELSE m

\* `for item in items` (lines 235-241)
RECURSIVE AddItems(_, _)
AddItems(m, items) ==
    IF items = <<>> THEN m
    ELSE AddItem(AddItems(m, SubSeq(items, 1, Len(items) - 1)), items[Len(items)])

\* The id of the first item of `items` that carries the key `email`, None if none does.
RECURSIVE FirstIdOf(_, _)
FirstIdOf(email, items) ==
    IF items = <<>> THEN None
    ELSE IF strip(lower(Head(items).primary_email)) = email THEN Str(Head(items).id)
    ELSE FirstIdOf(email, Tail(items))

ApiKeys == { strip(lower(e)) : e \in ApiEmails } \ { <<>> }

NoBuild == [ cache_existed |-> FALSE, cached |-> <<>>, csv_read |-> FALSE,
             api_called |-> FALSE, saved |-> FALSE, after_csv |-> <<>>,
             first_seen |-> [k \in ApiKeys |-> None], asked |-> {} ]

Builds == Len(build)
ThisBuild == build[Len(build)]
Noted(b) == [build EXCEPT ![Len(build)] = b]

MapInit ==
    /\ ImporterIdle
    /\ RowworkIdle /\ NormalizingIdle
    /\ BlobsIdle /\ SessionIdle /\ PagingIdle /\ PlacementsIdle /\ ParsingIdle
    /\ MappingIdle

\* build_vincere_email_map up to the call of fetch_recent_vincere_candidates, or
\* to its return when that call is not made (lines 265-292).
Build(vincere_csv, skip_api, credentials) ==
    /\ mpc \in {"idle", "returned"}
    /\ Builds < MaxBuilds
    /\ LET cached_map == load_vincere_map(map_file)
           from_csv   == IF vincere_csv # NoFile
                         THEN load_vincere_map_from_csv(vincere_csv[1]) ELSE <<>>
           use_api    == vincere_csv # NoFile /\ ~skip_api /\ credentials
           b          == [ NoBuild EXCEPT !.cache_existed = map_file # NoFile,
                                          !.cached = cached_map ]
       IN  IF Truthy(cached_map)
           THEN /\ email_map' = cached_map
                /\ mpc' = "returned"
                /\ build' = Append(build, b)
                /\ UNCHANGED << map_file, offset >>
           ELSE /\ email_map' = from_csv
                /\ offset' = 0
                /\ mpc' = IF use_api THEN "request" ELSE "returned"
                /\ map_file' = IF use_api THEN map_file ELSE << from_csv >>
                /\ build' = Append(build, [ b EXCEPT !.csv_read = vincere_csv # NoFile,
                                                     !.after_csv = from_csv,
                                                     !.saved = ~use_api ])
    /\ UNCHANGED not_mapping

\* fetch_recent_vincere_candidates, one pass of `while offset <= MAX_OFFSET`
\* whose request is answered (lines 229-254), and, when the loop ends with it,
\* the rest of build_vincere_email_map: save_vincere_map, return.
FetchPage(items) ==
    /\ mpc = "request"
    /\ LET added          == AddItems(email_map, items)
           new_this_batch == Cardinality(DOMAIN added \ DOMAIN email_map)
           next           == offset + PAGE_SIZE
           stop           == \/ items = <<>>
                             \/ new_this_batch = 0 /\ next > QuietOffset
                             \/ Len(items) < PAGE_SIZE
                             \/ next > MAX_OFFSET
           seen           == [k \in ApiKeys |->
                                 IF ThisBuild.first_seen[k] # None THEN ThisBuild.first_seen[k]
                                 ELSE FirstIdOf(k, items)]
       IN  /\ email_map' = added
           /\ offset' = IF items = <<>> THEN offset ELSE next
           /\ mpc' = IF stop THEN "returned" ELSE "request"
           /\ map_file' = IF stop THEN << added >> ELSE map_file
           /\ build' = Noted([ ThisBuild EXCEPT !.api_called = TRUE,
                                                !.first_seen = seen,
                                                !.asked = @ \cup {offset},
                                                !.saved = stop ])
    /\ UNCHANGED not_mapping

\* The same pass when client.get raises (lines 256-258): the message is
\* printed, time.sleep(5) starts, `offset` is as it was.
FetchFails ==
    /\ mpc = "request"
    /\ mpc' = "sleep"
    /\ build' = Noted([ ThisBuild EXCEPT !.api_called = TRUE, !.asked = @ \cup {offset} ])
    /\ UNCHANGED << not_mapping, map_file, email_map, offset >>

\* time.sleep(5) is over: back to `while offset <= MAX_OFFSET`.
FetchSleepEnds ==
    /\ mpc = "sleep"
    /\ mpc' = "request"
    /\ UNCHANGED << not_mapping, map_file, email_map, offset, build >>

MapNext ==
    \/ \E c \in VincereCsvs, skip_api \in BOOLEAN, credentials \in BOOLEAN :
          Build(c, skip_api, credentials)
    \/ \E items \in ApiPages : FetchPage(items)
    \/ FetchFails
    \/ FetchSleepEnds

MapSpec == MapInit /\ [][MapNext]_vars

\* The process is never suspended for good: a step that can be taken is taken.
MapFairSpec == MapSpec /\ WF_vars(MapNext)

(* ----------------------- VincereClient.get, three clients ----------------------- *)

\* The scripts that define a VincereClient.
Clients == {"bubble_import"} \cup PullScripts

\* The HTTP status of the answer to an API request.
Statuses == {200, 401, 500}

\* Only `request` of the two pull scripts has the branch
\* `if response.status_code == 401 and retry_on_auth_error`; `get` of
\* bubble_import.py goes from requests.get to resp.raise_for_status().
RetriesOnAuthError(c) == c \in PullScripts

ClientInit ==
    /\ ImporterIdle
    /\ RowworkIdle /\ NormalizingIdle
    /\ BlobsIdle /\ MappingIdle /\ PagingIdle /\ PlacementsIdle /\ ParsingIdle
    /\ client \in Clients
    /\ token = "none"
    /\ get = NoGet
    /\ gets = 0

\* client.get(endpoint) is called.
Get ==
    /\ get.state \in {"none", "returned", "raised"}
    /\ gets < MaxGets
    /\ gets' = gets + 1
    /\ get' = [ state |-> "sending", sent |-> <<>>, auths |-> 0, auth_failed |-> FALSE,
                discarded |-> FALSE, retry_on_auth_error |-> TRUE ]
    /\ UNCHANGED << not_session, client, token >>

\* One pass through the body of `request` (pull scripts) or `get`
\* (bubble_import.py): a token is fetched when none is cached or the cached one
\* has expired, the request is sent and answered with `status`.
Attempt(auth_ok, status) ==
    /\ get.state = "sending"
    /\ IF token # "valid" /\ ~auth_ok
       THEN /\ get' = [get EXCEPT !.state = "raised", !.auth_failed = TRUE]
            /\ UNCHANGED token
       ELSE LET g == [get EXCEPT !.auths = @ + (IF token # "valid" THEN 1 ELSE 0),
                                 !.sent = Append(@, status)]
            IN  IF status = 401 /\ RetriesOnAuthError(client) /\ get.retry_on_auth_error
                THEN /\ token' = "none"
                     /\ get' = [g EXCEPT !.retry_on_auth_error = FALSE, !.discarded = TRUE]
                ELSE /\ token' = "valid"
                     /\ get' = [g EXCEPT !.state = IF status = 200 THEN "returned"
                                                   ELSE "raised"]
    /\ UNCHANGED << not_session, client, gets >>

\* Time passes: the cached token is past token_expires_at.
TokenExpires ==
    /\ token = "valid"
    /\ token' = "expired"
    /\ UNCHANGED << not_session, client, get, gets >>

ClientNext ==
    \/ Get
    \/ \E auth_ok \in BOOLEAN, status \in Statuses : Attempt(auth_ok, status)
    \/ TokenExpires

ClientSpec == ClientInit /\ [][ClientNext]_vars

(* ------------------------------ fetch_all_jobs ------------------------------ *)

\* How the search for a working query ends (lines 164-220): a query attempt is
\* answered with a result (`total` is set from it), only the request without
\* query is (total stays None), none is but the last request does not raise
\* either (the loop is entered without query and total), or it raises
\* (`return []`).
Probes == {"query", "no_query", "unanswered", "failed"}

Totals == 0..MaxTotal

\* What client.get returns or does for a page of the loop: a result with
\* `items` and `total`, something without "result", or an exception.
PageAnswers == {"result", "malformed", "raises"}

\* The items of a page, by their job_status: at most page_size of them.
JobItems == {"OPEN", "CLOSED"}
JobPages == UNION { [1..n -> JobItems] : n \in 0..JobsPageSize }

NoPage == [asked |-> <<>>, items |-> 0, stop |-> "none"]

\* A plausible bug: the test of line 262 without `len(items) < page_size`.
StopsAfterPageIgnoresShortPage(items, collected, tot) == collected >= tot

\* `if len(all_jobs) >= total or len(items) < page_size: break` (line 262),
\* given the two lengths.
StopsAfterPage(items, collected, tot) == collected >= tot \/ items < JobsPageSize

JobsInit ==
    /\ ImporterIdle
    /\ RowworkIdle /\ NormalizingIdle
    /\ BlobsIdle /\ MappingIdle /\ SessionIdle /\ PlacementsIdle /\ ParsingIdle
    /\ PagingIdle

\* fetch_all_jobs up to its pagination loop (lines 156-224).
FindQuery(probe, t) ==
    /\ jpc = "idle"
    /\ start' = 0
    /\ all_jobs' = <<>>
    /\ total' = IF probe = "query" THEN <<t>> ELSE <<>>
    /\ jpc' = IF probe = "failed" THEN "done" ELSE "page"
    /\ paged' = [NoPage EXCEPT !.stop = IF probe = "failed" THEN "failed" ELSE "none"]
    /\ UNCHANGED not_paging

\* One pass of `while True` (lines 226-269): the request for `start`, answered
\* with `items` items and the total `t`.
FetchJobsPage(answer, items, t) ==
    /\ jpc = "page"
    /\ LET asked     == Append(paged.asked, start)
           tot       == IF total = <<>> THEN t ELSE total[1]
           collected == all_jobs \o items
       IN  CASE answer # "result" ->
                  /\ jpc' = "done"
                  /\ paged' = [paged EXCEPT !.asked = asked, !.stop = "failed"]
                  /\ UNCHANGED << start, all_jobs, total >>
             [] answer = "result" /\ items = <<>> ->
                  /\ jpc' = "done"
                  /\ total' = <<tot>>
                  /\ paged' = [asked |-> asked, items |-> 0, stop |-> "no_items"]
                  /\ UNCHANGED << start, all_jobs >>
             [] OTHER ->
                  /\ all_jobs' = collected
                  /\ total' = <<tot>>
                  /\ start' = start + JobsPageSize
                  /\ jpc' = IF StopsAfterPage(Len(items), Len(collected), tot)
                            THEN "done" ELSE "page"
                  /\ paged' = [ asked |-> asked, items |-> Len(items),
                                stop  |-> IF StopsAfterPage(Len(items), Len(collected), tot)
                                          THEN "fetched_all" ELSE "none" ]
    /\ UNCHANGED not_paging

JobsNext ==
    \/ \E probe \in Probes, t \in Totals : FindQuery(probe, t)
    \/ \E answer \in PageAnswers, items \in JobPages, t \in Totals :
          FetchJobsPage(answer, items, t)

JobsSpec == JobsInit /\ [][JobsNext]_vars

(* --------------------------- fetch_all_placements --------------------------- *)

\* What client.get(f'/position/{job_id}/placements') does: it returns no
\* placement, it returns one, or `request` raises for a 429 or a 500 answer.
PlacementAnswers == {"empty", "one", "429", "500"}

\* What client.get(f'/placement/{placement_id}') does for that one placement.
DetailAnswers == {"details", "429", "500"}

\* `'429' in str(e) or 'rate' in str(e).lower()` for the exception `request`
\* raises, 'Vincere API error: <status> <reason> - <text>'.
IsRateLimit(answer) == answer = "429"

PlacementsInit ==
    /\ ImporterIdle
    /\ RowworkIdle /\ NormalizingIdle
    /\ BlobsIdle /\ MappingIdle /\ SessionIdle /\ PagingIdle /\ ParsingIdle
    /\ PlacementsIdle

\* fetch_all_placements up to its loop (lines 129-161), the jobs file holding
\* `n` jobs to check.
LoadJobs(n) ==
    /\ ppc = "idle"
    /\ ppc' = "jobs"
    /\ job_index' = 0
    /\ placing' = [ jobs |-> n, errors |-> 0, all_placements |-> 0, done |-> <<>> ]
    /\ UNCHANGED not_placements

\* One pass of `for i, job_data in enumerate(jobs_to_check, 1)` (lines 162-214):
\* the request for the placements of the job, the request for the details of
\* each, the two except branches; `done` notes, for the job, the requests sent
\* for its placements, the answer to the last, and whether time.sleep(2) ran.
FetchJobPlacements(answer, detail_answer) ==
    /\ ppc = "jobs"
    /\ job_index < placing.jobs
    /\ job_index' = job_index + 1
    /\ LET failed  == answer \in {"429", "500"}
           dfailed == answer = "one" /\ detail_answer # "details"
           note    == [ job |-> job_index + 1, requests |-> 1, answer |-> answer,
                        slept |-> failed /\ IsRateLimit(answer),
                        error |-> failed ]
       IN  placing' = [ placing EXCEPT
                          !.errors = @ + (IF failed \/ dfailed THEN 1 ELSE 0),
                          !.all_placements = @ + (IF answer = "one" /\ ~dfailed THEN 1 ELSE 0),
                          !.done = Append(@, note) ]
    /\ UNCHANGED << not_placements, ppc >>

\* The loop is over: the summary is printed, all_placements returned.
PlacementsReturn ==
    /\ ppc = "jobs"
    /\ job_index = placing.jobs
    /\ ppc' = "done"
    /\ UNCHANGED << not_placements, job_index, placing >>

PlacementsNext ==
    \/ \E n \in 1..MaxJobsToCheck : LoadJobs(n)
    \/ \E answer \in PlacementAnswers, detail_answer \in DetailAnswers :
          FetchJobPlacements(answer, detail_answer)
    \/ PlacementsReturn

PlacementsSpec == PlacementsInit /\ [][PlacementsNext]_vars

(* --------------- parse_salary_range and parse_yacht_size_range --------------- *)

\* The characters of the texts the parsers are given, and some whole texts:
\* "Desired Monthly Salary" and "Prefered Yacht Size" of a Bubble row.
RangeChars == {"0", "3", "5", "k", "K", "m", "€", " ", "-"}

RangeExamples ==
    { <<"€", "3", "k", " ", "-", " ", "€", "5", "k">>,
      <<"4", "5", "m">>,
      <<"3", "0", "0", "0", " ", "E", "U", "R">>,
      <<"5", "0", " ", "m", "e", "t", "e", "r", "s">>,
      <<"1", "6", "0", " ", "f", "t">> }

RangeTexts == UNION { [1..n -> RangeChars] : n \in 0..MaxTextLen } \cup RangeExamples

DigitChars == <<"0", "1", "2", "3", "4", "5", "6", "7", "8", "9">>

\* \d
IsDigit(c) == \E d \in 1..10 : DigitChars[d] = c

DigitValue(c) == (CHOOSE d \in 1..10 : DigitChars[d] = c) - 1

\* int(numbers[i])
RECURSIVE int(_)
int(digits) ==
    IF digits = <<>> THEN 0
    ELSE int(SubSeq(digits, 1, Len(digits) - 1)) * 10 + DigitValue(digits[Len(digits)])

\* str(n) of a number n >= 0
RECURSIVE str(_)
str(n) ==
    IF n < 10 THEN << DigitChars[n + 1] >>
    ELSE Append(str(n \div 10), DigitChars[(n % 10) + 1])

\* flags=re.IGNORECASE: a character of the text as the pattern's letter.
IgnoreCase(c) ==
    CASE c = "K" -> "k" [] c = "M" -> "m" [] c = "E" -> "e" [] c = "U" -> "u"
      [] c = "R" -> "r" [] c = "O" -> "o" [] c = "S" -> "s" [] c = "D" -> "d"
      [] c = "T" -> "t" [] c = "F" -> "f" [] OTHER -> c

\* r"[€$£]|euro|eur|usd" and r"m|meters?|ft|feet": the alternatives in the
\* order the regular expression tries them.
CurrencyTokens ==
    << <<"€">>, <<"$">>, <<"£">>, <<"e", "u", "r", "o">>, <<"e", "u", "r">>, <<"u", "s", "d">> >>

UnitTokens ==
    << <<"m">>, <<"m", "e", "t", "e", "r", "s">>, <<"m", "e", "t", "e", "r">>,
       <<"f", "t">>, <<"f", "e", "e", "t">> >>

\* The token matches at the start of s.
MatchesAtStart(s, tok) ==
    /\ Len(tok) <= Len(s)
    /\ \A k \in 1..Len(tok) : IgnoreCase(s[k]) = tok[k]

\* re.sub(tokens, "", s, flags=re.IGNORECASE): left to right, at each position
\* the first alternative that matches is removed.
RECURSIVE re_sub(_, _)
re_sub(tokens, s) ==
    IF s = <<>> THEN <<>>
    ELSE LET hits == { a \in 1..Len(tokens) : MatchesAtStart(s, tokens[a]) }
         IN  IF hits # {}
             THEN LET a == CHOOSE x \in hits : \A y \in hits : x <= y
                  IN  re_sub(tokens, SubSeq(s, Len(tokens[a]) + 1, Len(s)))
             ELSE << Head(s) >> \o re_sub(tokens, Tail(s))

\* The length of the run of digits s starts with.
RECURSIVE DigitsAtStart(_)
DigitsAtStart(s) ==
    IF s = <<>> \/ ~IsDigit(Head(s)) THEN 0 ELSE 1 + DigitsAtStart(Tail(s))

\* A plausible bug: the "k" notation is not handled.
expand_k_forgotten(s) == s

\* re.sub(r"(\d+)k", lambda m: str(int(m.group(1)) * 1000), s, flags=re.IGNORECASE)
RECURSIVE expand_k(_)
expand_k(s) ==
    IF s = <<>> THEN <<>>
    ELSE LET n == DigitsAtStart(s)
         IN  IF n = 0 THEN << Head(s) >> \o expand_k(Tail(s))
             ELSE IF n < Len(s) /\ IgnoreCase(s[n + 1]) = "k"
             THEN str(int(SubSeq(s, 1, n)) * 1000) \o expand_k(SubSeq(s, n + 2, Len(s)))
             ELSE SubSeq(s, 1, n) \o expand_k(SubSeq(s, n + 1, Len(s)))

\* re.findall(r"\d+", s)
RECURSIVE findall_digits(_)
findall_digits(s) ==
    IF s = <<>> THEN <<>>
    ELSE LET n == DigitsAtStart(s)
         IN  IF n = 0 THEN findall_digits(Tail(s))
             ELSE << SubSeq(s, 1, n) >> \o findall_digits(SubSeq(s, n + 1, Len(s)))

\* The last lines of both parsers: (None, None) is <<>>, (a, b) is <<a, b>>.
range_of(numbers) ==
    IF numbers = <<>> THEN <<>>
    ELSE IF Len(numbers) = 1 THEN << int(numbers[1]), int(numbers[1]) >>
    ELSE << int(numbers[1]), int(numbers[2]) >>

\* parse_salary_range (lines 402-425)
parse_salary_range(value) ==
    IF value = <<>> THEN <<>>
    ELSE range_of(findall_digits(expand_k(strip(re_sub(CurrencyTokens, value)))))

\* parse_yacht_size_range (lines 427-444)
parse_yacht_size_range(value) ==
    IF value = <<>> THEN <<>>
    ELSE range_of(findall_digits(strip(re_sub(UnitTokens, value))))

ParseInit ==
    /\ ImporterIdle
    /\ RowworkIdle /\ NormalizingIdle
    /\ BlobsIdle /\ MappingIdle /\ SessionIdle /\ PagingIdle /\ PlacementsIdle
    /\ range_text \in RangeTexts
    /\ parsed = <<>>

\* map_bubble_to_candidate, lines 507-508: both parsers are applied.
ParseRanges ==
    /\ parsed = <<>>
    /\ parsed' = [ salary |-> parse_salary_range(range_text),
                   yacht  |-> parse_yacht_size_range(range_text) ]
    /\ UNCHANGED << not_parsing, range_text >>

ParseNext == ParseRanges

ParseSpec == ParseInit /\ [][ParseNext]_vars

(* ---- the store calls of one row: import_avatars and import_documents ---- *)

\* update_candidate_photo_url / create_document_record: the store call that
\* raises ("timeout": the store carried the write out and the answer was
\* lost).
UpdateFaults == {"none", "update", "timeout"}
RecordFaults == {"none", "select", "insert", "timeout"}

\* The record create_document_record inserts for a storage path
\* "<candidate id>/...": entity_id is the candidate id.
DocumentRecord(path) == [entity_id |-> path.folder, file_path |-> path]

\* `.select("id").eq("entity_id", candidate_id).eq("file_path", storage_path)`:
\* whether existing.data holds a row.
Exists(docs, path) == \E i \in 1..Len(docs) : docs[i] = DocumentRecord(path)

\* A plausible bug: the insert without the select before it.
create_document_record_unchecked(docs, path, fault) ==
    CASE fault = "insert"  -> [result |-> FALSE, documents |-> docs]
      [] fault = "timeout" -> [result |-> FALSE, documents |-> Append(docs, DocumentRecord(path))]
      [] OTHER             -> [result |-> TRUE,  documents |-> Append(docs, DocumentRecord(path))]

\* create_document_record(supabase, candidate_id, doc_type, storage_path, ...):
\* the value returned and the table after the call.  With one writer the store
\* has no duplicate to reject once the select came back empty, so the text of
\* an exception never says "duplicate" or "already exists".
create_document_record(docs, path, fault) ==
    IF fault = "select" THEN [result |-> FALSE, documents |-> docs]
    ELSE IF Exists(docs, path) THEN [result |-> TRUE, documents |-> docs]
    ELSE CASE fault = "insert"  -> [result |-> FALSE, documents |-> docs]
           [] fault = "timeout" -> [result |-> FALSE,
                                    documents |-> Append(docs, DocumentRecord(path))]
           [] OTHER             -> [result |-> TRUE,
                                    documents |-> Append(docs, DocumentRecord(path))]

\* update_candidate_photo_url(supabase, candidate_id, photo_url): the value
\* returned and the photo_url column after the call.
update_candidate_photo_url(urls, path, fault) ==
    CASE fault = "update"  -> [result |-> FALSE, photo_url |-> urls]
      [] fault = "timeout" -> [result |-> FALSE,
                               photo_url |-> [urls EXCEPT ![path.folder] = << path >>]]
      [] OTHER             -> [result |-> TRUE,
                               photo_url |-> [urls EXCEPT ![path.folder] = << path >>]]

\* A plausible bug: the result of upload_to_storage is not tested.
ReachesTheStoreWhateverTheUpload(downloaded, stored) == downloaded

\* `if not content: ... continue` and `if not upload_to_storage(...): ...
\* continue`: the row goes on to the database call.
ReachesTheStore(downloaded, stored) == downloaded /\ stored

RowInit ==
    /\ ImporterIdle
    /\ NormalizingIdle
    /\ BlobsIdle /\ MappingIdle /\ SessionIdle /\ PagingIdle /\ PlacementsIdle /\ ParsingIdle
    /\ documents = <<>>
    /\ photo_url = [c \in Folders |-> <<>>]
    /\ handled = NoRowHandled
    /\ tally = [uploaded_count |-> 0, error_count |-> 0]

\* What the loop does with the value the database call returned:
\* uploaded_count, or error_count and `continue`.
Counted(t, ok) ==
    IF ok THEN [t EXCEPT !.uploaded_count = @ + 1]
    ELSE [t EXCEPT !.error_count = @ + 1]

\* import_documents, one row whose candidate was found, not a dry run (lines
\* 488-522): download_file, upload_to_storage, create_document_record.
\* `downloaded`: download_file returned content; `stored`: upload_to_storage
\* returned True.
DocumentRow(path, downloaded, stored, fault) ==
    /\ handled.row < MaxHandled
    /\ LET reached == ReachesTheStore(downloaded, stored)
           res     == IF reached THEN create_document_record(documents, path, fault)
                      ELSE [result |-> FALSE, documents |-> documents]
       IN /\ documents' = res.documents
          /\ tally' = Counted(tally, res.result)
          /\ handled' = [ row |-> handled.row + 1, script |-> "documents", path |-> path,
                          downloaded |-> downloaded,
                          stored |-> downloaded /\ stored,
                          fault |-> IF reached THEN fault ELSE "none",
                          result |-> res.result ]
    /\ UNCHANGED << not_rowwork, photo_url >>

\* import_avatars, one row whose candidate was found without a photo_url, not
\* a dry run (lines 343-384): download_file, upload_to_storage,
\* update_candidate_photo_url.
AvatarRow(path, downloaded, stored, fault) ==
    /\ handled.row < MaxHandled
    /\ LET reached == ReachesTheStore(downloaded, stored)
           res     == IF reached THEN update_candidate_photo_url(photo_url, path, fault)
                      ELSE [result |-> FALSE, photo_url |-> photo_url]
       IN /\ photo_url' = res.photo_url
          /\ tally' = Counted(tally, res.result)
          /\ handled' = [ row |-> handled.row + 1, script |-> "avatars", path |-> path,
                          downloaded |-> downloaded,
                          stored |-> downloaded /\ stored,
                          fault |-> IF reached THEN fault ELSE "none",
                          result |-> res.result ]
    /\ UNCHANGED << not_rowwork, documents >>

RowNext ==
    \/ \E path \in Paths, downloaded \in BOOLEAN, stored \in BOOLEAN, fault \in RecordFaults :
          DocumentRow(path, downloaded, stored, fault)
    \/ \E path \in Paths, downloaded \in BOOLEAN, stored \in BOOLEAN, fault \in UpdateFaults :
          AvatarRow(path, downloaded, stored, fault)

RowSpec == RowInit /\ [][RowNext]_vars

(* ------------------- normalize_availability_status -------------------- *)

\* The keywords of status_map, character by character.
Available   == << "a", "v", "a", "i", "l", "a", "b", "l", "e" >>
Active      == << "a", "c", "t", "i", "v", "e" >>
Looking     == << "l", "o", "o", "k", "i", "n", "g" >>
Employed    == << "e", "m", "p", "l", "o", "y", "e", "d" >>
Working     == << "w", "o", "r", "k", "i", "n", "g" >>
NotSpace    == << "n", "o", "t", " " >>
Un          == << "u", "n" >>

\* The words and word parts the "Candidate Status" values are made of.
StatusParts ==
    { Available, << "A" >> \o Tail(Available), Active, Looking, Employed, Working,
      NotSpace, << "N" >> \o Tail(NotSpace), Un, << "U", "n" >>,
      << " " >>, << "o", "f", "f" >> }

RECURSIVE Join(_)
Join(parts) == IF parts = <<>> THEN <<>> ELSE Head(parts) \o Join(Tail(parts))

StatusTexts == { Join(p) : p \in UNION { [1..n -> StatusParts] : n \in 0..MaxStatusParts } }

\* status_map, in the order of the dict literal, which is the order
\* `status_map.items()` yields.
status_map ==
    << [key |-> Available,             status |-> "available"],
       [key |-> Active,                status |-> "available"],
       [key |-> Looking,               status |-> "available"],
       [key |-> Employed,              status |-> "employed"],
       [key |-> Working,               status |-> "employed"],
       [key |-> NotSpace \o Available, status |-> "unavailable"],
       [key |-> Un \o Available,       status |-> "unavailable"] >>

\* `key in lower`
Within(key, text) ==
    \E i \in 0..(Len(text) - Len(key)) : SubSeq(text, i + 1, i + Len(key)) = key

\* normalize_availability_status(value): <<>> for None, <<status>> otherwise;
\* the status of the first key of status_map the lower-cased text contains.
normalize_availability_status(value) ==
    IF value = <<>> THEN <<>>
    ELSE LET low  == strip(lower(value))
             hits == { i \in 1..Len(status_map) : Within(status_map[i].key, low) }
         IN IF hits = {} THEN <<>>
            ELSE << status_map[CHOOSE i \in hits : \A k \in hits : i <= k].status >>

NormalizeInit ==
    /\ ImporterIdle
    /\ RowworkIdle
    /\ BlobsIdle /\ MappingIdle /\ SessionIdle /\ PagingIdle /\ PlacementsIdle /\ ParsingIdle
    /\ status_text \in StatusTexts
    /\ normalized = <<>>

\* map_bubble_to_candidate, line 569: the function is applied to the
\* "Candidate Status" column.
NormalizeStatus ==
    /\ normalized = <<>>
    /\ normalized' = [value |-> normalize_availability_status(status_text)]
    /\ UNCHANGED << not_normalizing, status_text >>

NormalizeNext == NormalizeStatus

NormalizeSpec == NormalizeInit /\ [][NormalizeNext]_vars

(* ------------------------------ claims -------------------------------- *)

\* The checkpoint a file holds (the fresh one's position 0 when there is none).
Persisted == IF checkpoint_file = NoFile THEN FreshCheckpoint(0) ELSE checkpoint_file[1]

\* C1: a candidate import that is killed and restarted with resume=true passes
\* no row to upsert_candidate a second time, and when the restarted run reaches
\* the end of the input every row has had its outcome decided.
C1_ExactlyOnceAcrossKill ==
    (job = "candidates" /\ pc # "idle" /\ resume /\ prev.exit = "killed") =>
        /\ \A p \in 1..Len(csv) : calls[p] <= 1
        /\ (pc = "final_errors" /\ ended = "eof") => decided = 1..Len(csv)

\* C2: whenever the checkpoint file holds last_processed_row = N, every row at
\* a position <= N has had its outcome decided by the runs that led to that
\* file (so a resumed run, which skips rows <= N, skips only decided rows).
C2_CheckpointCoversOnlyDecided ==
    /\ 1..Persisted.last_processed_row \subseteq decided_on_disk
    /\ (pc # "idle" /\ resume) => 1..start_row \subseteq decided

C2_Witness ==
    /\ job = "documents"
    /\ exit = "killed"
    /\ pc = "loop"
    /\ resume
    /\ start_row = 2
    /\ Persisted.error_count = 1

\* C3: a candidate import started with resume=true right after a run that
\* reached the end of the same CSV passes no row to upsert_candidate.
C3_NoUpsertAfterCompletion ==
    (job = "candidates" /\ pc # "idle" /\ resume /\ prev.exit = "eof") =>
        run_calls = {}

C3_Witness ==
    /\ job = "candidates"
    /\ pc = "final_errors"
    /\ resume
    /\ prev.exit = "eof"
    /\ touched # {}
    /\ \E p \in 1..Len(csv) : calls[p] > 0
    /\ run_calls = {}

\* Two checkpoints agree on every field but updated_at.
SameExceptUpdatedAt(a, b) == [a EXCEPT !.updated_at = 0] = [b EXCEPT !.updated_at = 0]

\* C4: the checkpoint such a rerun persists and returns equals the one the
\* completed run left, updated_at apart.
C4_RerunLeavesCheckpoint ==
    (job = "candidates" /\ pc = "final_errors" /\ resume /\ prev.exit = "eof") =>
        /\ SameExceptUpdatedAt(checkpoint, prev.file[1])
        /\ SameExceptUpdatedAt(Persisted, prev.file[1])

\* The step of the candidate loop that handles a row whose e-mail is empty.
HandlesEmptyEmail ==
    /\ job = "candidates"
    /\ InLoop
    /\ Handles(NextRow)
    /\ csv[NextRow].email \in {"", " "}
    /\ row_num' = NextRow

\* C5: a row with an empty e-mail adds one to skipped_count, sets
\* last_processed_row to the row's position and makes no upsert call.
C5_EmptyEmailAdvancesCheckpoint ==
    [][HandlesEmptyEmail =>
          /\ checkpoint'.skipped_count = checkpoint.skipped_count + 1
          /\ checkpoint'.last_processed_row = NextRow
          /\ calls' = calls /\ table' = table]_vars

\* C6: a run whose loop was broken by --limit does not set completed_at: the
\* checkpoint it persists carries no completion time of this run.
C6_CompletedOnlyAtEndOfInput ==
    (pc = "final_errors" /\ ended = "limit") => Persisted.completed_at # Now

\* C7: a run with limit L >= 1 from checkpoint position S decides outcomes
\* only for rows S+1..S+L, makes at most L upsert calls, and the position it
\* holds and persists is at most S+L.
C7_LimitBoundsTheRun ==
    (pc # "idle" /\ limit >= 1) =>
        /\ touched \subseteq (start_row + 1)..(start_row + limit)
        /\ run_calls \subseteq touched
        /\ Cardinality(run_calls) <= limit
        /\ checkpoint.last_processed_row <= start_row + limit
        /\ pc = "final_errors" => Persisted.last_processed_row <= start_row + limit

C7_Witness ==
    /\ job = "candidates"
    /\ pc = "final_errors"
    /\ limit = 1
    /\ ended = "limit"
    /\ run_calls = {1}
    /\ Persisted.last_processed_row = 1

\* C8: last_processed_row never decreases.  In a running process every
\* assignment sets it to the row just handled, beyond its previous value, and
\* every save of a process started with resume=true writes a position that is
\* at least the one the file held.
C8_PositionNeverDecreases ==
    [][/\ (pc # "idle" /\ pc' # "idle") =>
             \/ checkpoint'.last_processed_row = checkpoint.last_processed_row
             \/ /\ checkpoint'.last_processed_row = row_num'
                /\ checkpoint'.last_processed_row > checkpoint.last_processed_row
       /\ (pc # "idle" /\ resume) =>
             Persisted'.last_processed_row >= Persisted.last_processed_row]_vars

C8_Witness ==
    /\ job = "avatars"
    /\ pc = "final_errors"
    /\ resume
    /\ start_row = 1
    /\ Persisted.last_processed_row = 2

\* C9: no row of the CSV ends a candidate import before the end of the input.
C9_NoRowAbortsTheRun == job = "candidates" => exit # "aborted"

\* The step of the candidate loop that handles a row with an e-mail whose
\* transform raises (a text column read as None).
HandlesRaisingRow ==
    /\ job = "candidates"
    /\ InLoop
    /\ Handles(NextRow)
    /\ csv[NextRow].email = "a"
    /\ csv[NextRow].name = None
    /\ row_num' = NextRow

\* C10: when map_bubble_to_candidate raises for a row, error_count grows by
\* one, one entry {row, email, error} is appended to the error list, no upsert
\* call is made and the loop goes on with the next row.
C10_TransformErrorIsRecorded ==
    [][HandlesRaisingRow =>
          /\ checkpoint' = [checkpoint EXCEPT !.error_count = @ + 1]
          /\ Len(errors') = Len(errors) + 1
          /\ SubSeq(errors', 1, Len(errors)) = errors
          /\ errors'[Len(errors')].row = NextRow
          /\ errors'[Len(errors')].email = "a"
          /\ calls' = calls /\ table' = table
          /\ pc' = "loop"]_vars

C10_Witness ==
    /\ job = "candidates"
    /\ last = [op |-> "transform_error", row |-> 1]
    /\ pc = "loop"
    /\ Len(csv) = 2
    /\ checkpoint.error_count = 1
    /\ Len(errors) = 1

\* C11: upsert_candidate never raises.  Whichever store call throws (the
\* select, the update or the insert), the function returns ("error", message);
\* import_candidates then adds one to error_count, appends one entry carrying
\* that message and goes on with the next row.  Without a throw neither
\* error_count nor the error list changes.
C11_UpsertNeverRaises ==
    [][InLoop =>
          /\ outcome'.action # "raised"
          /\ exit' # "aborted"
          /\ row_num' = NextRow
          /\ pc' = "loop"
          /\ IF outcome'.thrown # ""
             THEN /\ outcome'.action = "error"
                  /\ outcome'.error = outcome'.thrown
                  /\ checkpoint'.error_count = checkpoint.error_count + 1
                  /\ errors' = Append(errors, [row |-> NextRow,
                                               email |-> outcome'.candidate.email,
                                               error |-> outcome'.error])
                  /\ candidates' = candidates
             ELSE /\ checkpoint'.error_count = checkpoint.error_count
                  /\ errors' = errors]_vars

C11_Witness ==
    /\ pc = "loop"
    /\ Len(csv) = 2
    /\ row_num = 1
    /\ outcome.action = "error"
    /\ outcome.thrown = "update"
    /\ checkpoint.error_count = 1
    /\ Len(errors) = 1

\* Two e-mail addresses are the same, whatever the case of their letters.
SameEmail(a, b) ==
    /\ Len(a) = Len(b)
    /\ \A i \in 1..Len(a) : Lower(a[i]) = Lower(b[i])

\* The records that carried the candidate's e-mail when upsert_candidate was
\* called.
SameEmailBefore == { r \in outcome.before : SameEmail(r.email, outcome.candidate.email) }

\* C12: for a candidate with an e-mail, upsert_candidate makes one write: an
\* update of a record with that e-mail (whatever the case) when there is one,
\* outcome "updated"; otherwise an insert, outcome "inserted".  It never
\* inserts when such a record exists and never updates when none does.
C12_UpsertWritesTheMatch ==
    outcome.action \in {"updated", "inserted"} =>
        /\ SameEmailBefore # {} =>
              /\ outcome.action = "updated"
              /\ outcome.target \in { r.id : r \in SameEmailBefore }
        /\ SameEmailBefore = {} =>
              /\ outcome.action = "inserted"
              /\ Cardinality(candidates) = Cardinality(outcome.before) + 1

\* A vincere_id that is set.
NonEmpty(v) == v \notin {None, ""}

\* C13: a record whose vincere_id is set keeps a set vincere_id through every
\* upsert, and keeps the very same one when the mapped record brings none.
C13_VincereIdIsKept ==
    [][\A r \in candidates :
          NonEmpty(r.vincere_id) =>
             \E s \in candidates' :
                /\ s.id = r.id
                /\ NonEmpty(s.vincere_id)
                /\ (InLoop /\ ~NonEmpty(outcome'.candidate.vincere_id)) =>
                       s.vincere_id = r.vincere_id]_vars

C13_Witness ==
    /\ outcome.action = "updated"
    /\ outcome.existing.vincere_id = "V1"
    /\ outcome.candidate.vincere_id = None
    /\ \E s \in candidates :
          /\ s.id = outcome.target
          /\ s.vincere_id = "V1"
          /\ s.first_name = "new"

\* C14: once the row at a multiple of the checkpoint interval has been
\* handled, whatever its outcome, the checkpoint and the error log are on disk
\* before the next row is handled; and both are on disk after the end of the
\* input.
C14_SavedAtEveryInterval ==
    /\ (pc = "loop" /\ row_num \in touched /\ IsCheckpointRow(row_num)) =>
          /\ checkpoint_file = << checkpoint >>
          /\ error_log_file = << errors >>
    /\ (pc = "idle" /\ exit = "eof") =>
          /\ checkpoint_file # NoFile
          /\ error_log_file # NoFile

\* The row the loop reads next is one the importer would pass to the store
\* (candidates) or download and upload (avatars, documents).
WouldWrite ==
    /\ InLoop
    /\ Handles(NextRow)
    /\ csv[NextRow].email # None
    /\ IF job = "candidates"
       THEN LowerStrip(csv[NextRow].email) # "" /\ ~TransformRaises(csv[NextRow])
       ELSE HasWork(job)

\* C15: a dry run makes no call to the store or to blob storage (no candidate
\* lookup, insert, update, download or upload) whatever the row, and counts
\* each row it would have upserted or uploaded as a success.
C15_DryRunTouchesNoStore ==
    [][(pc # "idle" /\ dry_run) =>
          /\ table' = table
          /\ photo' = photo
          /\ calls' = calls
          /\ cache' = EmptyCache
          /\ last'.op \in {"start", "none", "dry_run", "skip_no_email", "skip_no_url",
                          "skip_expired_s3", "transform_error"}
          /\ (WouldWrite /\ row_num' = NextRow) =>
                /\ last'.op = "dry_run"
                /\ checkpoint'.error_count = checkpoint.error_count
                /\ checkpoint'.skipped_count = checkpoint.skipped_count
                /\ IF job = "candidates"
                   THEN checkpoint'.imported_count = checkpoint.imported_count + 1
                   ELSE checkpoint'.uploaded_count = checkpoint.uploaded_count + 1]_vars

C15_Witness ==
    /\ job = "avatars"
    /\ dry_run
    /\ pc = "loop"
    /\ last = [op |-> "dry_run", row |-> 1]
    /\ "a" \in table
    /\ photo = {}
    /\ checkpoint.uploaded_count = 1

\* C16: a fatal setup failure (the candidates CSV is missing, or a store
\* credential is missing and the run is no dry run) ends the candidate import
\* before any row is processed: no row is read, no upsert call is made, no
\* counter and no record changes, on disk as in the store.
C16_FatalSetupProcessesNothing ==
    [][(job = "candidates" /\ pc = "idle" /\ pc' = "idle" /\ runs' # runs) =>
          /\ exit' = "fatal"
          /\ row_num' = 0
          /\ checkpoint' = checkpoint
          /\ calls' = calls
          /\ table' = table
          /\ checkpoint_file' = checkpoint_file
          /\ error_log_file' = error_log_file]_vars

C16_Witness ==
    /\ job = "candidates"
    /\ pc = "idle"
    /\ exit = "fatal"
    /\ runs = 2
    /\ Persisted.imported_count = 1
    /\ Persisted.completed_at = 1
    /\ \E p \in Positions : calls[p] = 1

\* C17: a script ends with a non-zero exit code exactly when a fatal setup
\* failure occurred (a required credential or the input file is missing), and
\* with zero otherwise; the Vincere pull scripts and the Bubble import scripts
\* alike.  (A process ended by a signal has no exit code of its own.)
C17_ExitCodeTellsFatalSetup ==
    (pc = "idle" /\ exit \notin {"none", "killed"}) =>
        (ExitCode(job, exit) # 0 <=> exit = "fatal")

\* C18: a document import started with resume=true right after a run that
\* reached the end of the same CSV does no work: no candidate lookup, no
\* download, upload or document insert, and no row is handled again.
C18_DocumentRerunDoesNothing ==
    (job = "documents" /\ pc # "idle" /\ resume /\ prev.exit = "eof") =>
        /\ cache = EmptyCache
        /\ touched = {}
        /\ last.op = "start"

\* The avatar loop handles a row whose candidate the lookup returns with a
\* photo_url (from the table, or from the cache of this process).
HandlesRowWithPhoto ==
    /\ HasWork("avatars")
    /\ ~dry_run
    /\ RowKey \in table /\ RowKey \in photo
    /\ cache[RowKey] \in {"unset", "photo"}
    /\ row_num' = NextRow
    /\ last'.op # "not_found"

\* C19: in the avatar importer a row whose candidate is found with a photo_url
\* is skipped: skipped_count grows by one, last_processed_row becomes the
\* row's position, and nothing is downloaded, uploaded or updated for it.
C19_PhotoRowIsSkipped ==
    [][HandlesRowWithPhoto =>
          /\ last' = [op |-> "has_photo", row |-> NextRow]
          /\ checkpoint' = [checkpoint EXCEPT !.skipped_count = @ + 1,
                                              !.last_processed_row = NextRow]
          /\ errors' = errors
          /\ photo' = photo
          /\ table' = table]_vars

C19_Witness ==
    /\ job = "avatars"
    /\ pc = "loop"
    /\ last = [op |-> "has_photo", row |-> 1]
    /\ "a" \in photo
    /\ checkpoint.skipped_count = 1
    /\ checkpoint.last_processed_row = 1
    /\ checkpoint.uploaded_count = 0

\* The avatar loop handles a row for a candidate whose photo_url an earlier
\* row of this process uploaded and set.
HandlesRowAfterUpload ==
    /\ HasWork("avatars")
    /\ ~dry_run
    /\ RowKey \in photo
    /\ cache[RowKey] = "found"
    /\ row_num' = NextRow

\* C20: within one avatar run, once a row has uploaded an avatar and set the
\* candidate's photo_url, a later row with the same e-mail is skipped as
\* already having a photo: nothing is downloaded or uploaded for it.
C20_AvatarUploadedOncePerRun ==
    [][HandlesRowAfterUpload =>
          /\ last'.op = "has_photo"
          /\ checkpoint'.skipped_count = checkpoint.skipped_count + 1
          /\ checkpoint'.uploaded_count = checkpoint.uploaded_count]_vars

\* C21: upload_to_storage for a path at which a blob is already stored succeeds
\* without a second physical write: when the listing shows the file name no
\* upload call is made, and when the upload is made and the store rejects it
\* as a duplicate the result is success all the same.
C21_UploadToOccupiedPathSucceeds ==
    upload # NoUpload =>
        /\ (upload.existed /\ upload.shown => upload.result = TRUE /\ upload.uploads = 0)
        /\ (upload.rejected => upload.result = TRUE)
        /\ (upload.existed => ~upload.wrote)
        /\ \A p \in Paths : blob_writes[p] <= 1

\* The listing missed a stored blob, the upload was made and rejected.
C21_Witness ==
    /\ upload # NoUpload
    /\ upload.existed /\ ~upload.shown
    /\ upload.uploads = 1 /\ upload.rejected
    /\ upload.result = TRUE
    /\ blob_writes[upload.path] = 1

\* C22: when the cache file exists build_vincere_email_map returns what it
\* holds, a mapping without entries included, and neither reads the Vincere
\* CSV, nor calls the API, nor writes the cache file.
C22_CacheFileIsReturnedAsIs ==
    (build # <<>> /\ ThisBuild.cache_existed) =>
        /\ ~ThisBuild.csv_read
        /\ ~ThisBuild.api_called
        /\ ~ThisBuild.saved
        /\ mpc = "returned"
        /\ email_map = ThisBuild.cached

\* C23: the API fetch adds only e-mails the mapping does not hold: every
\* e-mail of the mapping parsed from the CSV keeps its id over any sequence of
\* pages, and an e-mail the API added carries the id of the first item seen
\* with it.
C23_FetchOnlyAddsNewEmails ==
    (build # <<>> /\ ThisBuild.api_called) =>
        /\ \A k \in DOMAIN ThisBuild.after_csv :
              k \in DOMAIN email_map /\ email_map[k] = ThisBuild.after_csv[k]
        /\ \A k \in DOMAIN email_map \ DOMAIN ThisBuild.after_csv :
              email_map[k] = ThisBuild.first_seen[k]

\* Pages were fetched that carried an e-mail of the CSV and a new one.
C23_Witness ==
    /\ build # <<>> /\ ThisBuild.api_called
    /\ mpc = "returned"
    /\ offset > PAGE_SIZE
    /\ DOMAIN ThisBuild.after_csv = { <<"j">> }
    /\ ThisBuild.first_seen[<<"j">>] = "2"
    /\ email_map[<<"j">>] = "7"
    /\ <<"d">> \in DOMAIN email_map

\* C24: fetch_recent_vincere_candidates terminates after a bounded number of
\* requests, failing ones included: once it has started it returns.
C24_FetchTerminates == (mpc = "request") ~> (mpc = "returned")

\* C25: every Vincere client answers a 401 to a GET by discarding its cached
\* token, authenticating again and repeating the request exactly once: a GET
\* sends at most two requests, and a 401 to the second is raised.
C25_GetRetriesOnceOnUnauthorized ==
    get # NoGet =>
        /\ Len(get.sent) <= 2
        /\ (get.state \in {"returned", "raised"} /\ get.sent # <<>> /\ get.sent[1] = 401) =>
               /\ get.discarded
               /\ get.auth_failed \/ (Len(get.sent) = 2 /\ get.auths >= 1)
        /\ Len(get.sent) = 2 =>
               /\ get.state \in {"returned", "raised"}
               /\ get.sent[2] = 401 => get.state = "raised"

\* C26: the pagination loop of fetch_all_jobs terminates; unless a request
\* fails it stops exactly when a page has no items, or fewer than the page
\* size, or the jobs collected have reached the total the server reported, and
\* until then it requests the next start offset, each offset once.
C26_PaginationStopsWhenAllIsFetched ==
    jpc \in {"page", "done"} =>
        /\ \A i \in 1..Len(paged.asked) : paged.asked[i] = (i - 1) * JobsPageSize
        /\ Len(paged.asked) * JobsPageSize <= MaxTotal + JobsPageSize
        /\ (jpc = "done" /\ paged.stop # "failed") =>
               \/ paged.items = 0
               \/ paged.items < JobsPageSize
               \/ Len(all_jobs) >= total[1]
        /\ (jpc = "page" /\ paged.asked # <<>>) =>
               /\ paged.items = JobsPageSize
               /\ Len(all_jobs) < total[1]
               /\ start = Len(paged.asked) * JobsPageSize

\* Two full pages were fetched and the second reached the total.
C26_Witness ==
    /\ jpc = "done"
    /\ paged.asked = <<0, JobsPageSize>>
    /\ paged.items = JobsPageSize
    /\ Len(all_jobs) = 2 * JobsPageSize
    /\ Len(all_jobs) >= total[1]
    /\ paged.stop = "fetched_all"

\* C27: in fetch_all_placements a 429 answer to the request for a job's
\* placements is followed by a sleep and by the same request again; the job is
\* counted as an error and skipped only after the request was repeated.
C27_RateLimitIsRetried ==
    ppc \in {"jobs", "done"} =>
        \A i \in 1..Len(placing.done) :
            IsRateLimit(placing.done[i].answer) =>
                /\ placing.done[i].slept
                /\ placing.done[i].error => placing.done[i].requests >= 2

\* The error log a file holds (the empty one when there is none).
LogOnDisk == load_errors(error_log_file)

IsPrefix(a, b) == Len(a) <= Len(b) /\ SubSeq(b, 1, Len(a)) = a

\* C28: the error log is append-only.  Within a run the error list only grows
\* at its end and every save writes that list; in a run started with
\* resume=true every save writes a log that has the log the file held as a
\* prefix: nothing is removed, reordered or deduplicated.
C28_ErrorLogIsAppendOnly ==
    [][/\ (pc # "idle" /\ pc' # "idle") => IsPrefix(errors, errors')
       /\ (pc # "idle" /\ error_log_file' # error_log_file) => LogOnDisk' = errors
       /\ (pc # "idle" /\ resume) => IsPrefix(LogOnDisk, LogOnDisk')]_vars

\* A resumed run has added its error for row 2 to the log the run before it
\* left with its error for row 1.
C28_Witness ==
    /\ pc = "idle"
    /\ exit = "eof"
    /\ runs = 2
    /\ Persisted.started_at = 1
    /\ Len(LogOnDisk) = 2
    /\ LogOnDisk[1].row = 1
    /\ LogOnDisk[2].row = 2

\* C29: a run started with resume=false ignores the checkpoint and the error
\* log on disk: it starts from a fresh checkpoint (position 0, counters zero)
\* and an empty error list, decides every row it reads from row 1 on (but the
\* row at which --limit ends the loop), and its saves write its own checkpoint
\* and its own errors over the files.
C29_FreshRunIgnoresTheFiles ==
    [][/\ (pc = "idle" /\ pc' = "loop" /\ ~resume') =>
             /\ checkpoint' = FreshCheckpoint(runs')
             /\ errors' = <<>>
             /\ start_row' = 0 /\ row_num' = 0
       /\ (pc # "idle" /\ ~resume) =>
             /\ start_row = 0
             /\ touched = 1..(IF ended = "limit" THEN row_num - 1 ELSE row_num)
             /\ \A i \in 1..Len(errors) : errors[i].row \in touched
             /\ checkpoint_file' # checkpoint_file => Persisted'.started_at = runs
             /\ error_log_file' # error_log_file => LogOnDisk' = errors]_vars

\* A fresh run over files an earlier run left has saved: both files are its own.
C29_Witness ==
    /\ pc = "final_errors"
    /\ ~resume
    /\ runs = 2
    /\ prev.file # NoFile
    /\ prev.file[1].last_processed_row = 2
    /\ prev.file[1].error_count = 1
    /\ touched = {1, 2}
    /\ Persisted.started_at = 2
    /\ Persisted.error_count = 0
    /\ LogOnDisk # <<>>

\* The integers a text holds, as the claim counts them: its maximal runs of
\* digits in order of appearance, one directly followed by "k" or "K" worth a
\* thousand times its number when `with_k`.
RunStarts(s) == { i \in 1..Len(s) : IsDigit(s[i]) /\ (i = 1 \/ ~IsDigit(s[i - 1])) }

RunEnd(s, i) ==
    CHOOSE j \in i..Len(s) :
        /\ \A p \in i..j : IsDigit(s[p])
        /\ j = Len(s) \/ ~IsDigit(s[j + 1])

RECURSIVE Pow10(_)
Pow10(n) == IF n = 0 THEN 1 ELSE 10 * Pow10(n - 1)

RECURSIVE Num(_, _, _)
Num(s, i, j) == IF i > j THEN 0 ELSE DigitValue(s[i]) * Pow10(j - i) + Num(s, i + 1, j)

IntegerAt(s, i, with_k) ==
    LET j == RunEnd(s, i)
    IN  IF with_k /\ j < Len(s) /\ s[j + 1] \in {"k", "K"}
        THEN 1000 * Num(s, i, j) ELSE Num(s, i, j)

\* What the claim says the parser returns for the text s.
RangeHeldBy(s, with_k) ==
    LET starts == RunStarts(s)
        first  == CHOOSE i \in starts : \A x \in starts : i <= x
        later  == starts \ {first}
        second == CHOOSE i \in later : \A x \in later : i <= x
    IN  IF starts = {} THEN <<>>
        ELSE IF later = {} THEN << IntegerAt(s, first, with_k), IntegerAt(s, first, with_k) >>
        ELSE << IntegerAt(s, first, with_k), IntegerAt(s, second, with_k) >>

\* A "k" stands between two digits: expanding it joins two runs into one.
KJoinsDigits(s) ==
    \E i \in 2..(Len(s) - 1) : IsDigit(s[i - 1]) /\ s[i] \in {"k", "K"} /\ IsDigit(s[i + 1])

C31_TransformIsTotal ==
    job = "candidates" => last.op # "transform_error"

(* ------------------------------ C32 ----------------------------------- *)

\* `uploaded_count + skipped_count + error_count` of a checkpoint dict.
Accounted(cp) == cp.uploaded_count + cp.skipped_count + cp.error_count

\* C32: in the avatar importer, starting from no checkpoint file and over any
\* sequence of runs (with or without --limit or --dry-run), the counters of
\* the checkpoint add up to its position after every handled row:
\* uploaded_count + skipped_count + error_count = last_processed_row, in
\* memory and in every checkpoint file written.
C32_AvatarCountersAddUpToPosition ==
    job = "avatars" =>
        /\ Accounted(checkpoint) = checkpoint.last_processed_row
        /\ checkpoint_file # NoFile =>
               Accounted(checkpoint_file[1]) = checkpoint_file[1].last_processed_row

\* A second, resumed run has handled a row after a first run that handled one:
\* each of the three counters has grown, and the position is beyond the
\* first run's.
C32_Witness ==
    /\ job = "avatars"
    /\ runs = 2 /\ resume /\ start_row >= 1
    /\ last.row = checkpoint.last_processed_row
    /\ last.row > start_row
    /\ last.op \in {"error", "uploaded", "dry_run", "not_found", "has_photo",
                    "skip_no_email", "skip_no_url"}
    /\ checkpoint.skipped_count >= 1
    /\ checkpoint.uploaded_count + checkpoint.error_count >= 1

(* ------------------------------ C33 ----------------------------------- *)

\* C33: repeated runs of the candidate importer with resume=true and the same
\* limit L >= 1 over an unchanged CSV finish the input.  Each run starts at
\* the persisted position and its rows' outcomes depend on the rows alone, so
\* the claim needs every run that stops at the limit to leave a position
\* beyond the one it started from: the checkpoint such a run is about to save
\* has last_processed_row > start_row.
C33_LimitedRunMovesThePosition ==
    ( /\ job = "candidates"
      /\ resume /\ limit >= 1
      /\ pc = "final_checkpoint"
      /\ ended = "limit" )
    => checkpoint.last_processed_row > start_row

(* ------------------------------ C34 ----------------------------------- *)

\* The rows up to the position of the checkpoint file the process found when
\* it started.
CoveredBefore ==
    IF prev.file = NoFile THEN {} ELSE 1..prev.file[1].last_processed_row

\* C34: a dry run of the candidate or avatar importer advances
\* last_processed_row and writes the checkpoint file as a real run does: the
\* row it counts becomes the position, and each save writes that position to
\* the file.  A later run with resume=true then handles (and so upserts or
\* uploads) no row up to the position it found on file.
C34_DryRunMovesThePositionOnFile ==
    [][ /\ (dry_run /\ last' = [op |-> "dry_run", row |-> NextRow])
               => checkpoint'.last_processed_row = NextRow
        /\ (dry_run /\ checkpoint_file' # checkpoint_file)
               => checkpoint_file'[1].last_processed_row = checkpoint.last_processed_row
        /\ (resume' /\ pc' # "idle")
               => /\ start_row' = Cardinality(CoveredBefore')
                  /\ (touched' \cup run_calls') \cap CoveredBefore' = {} ]_vars

\* A dry run counted both rows of the input as imported and saved position 2
\* (the table is still empty); the real, resumed run after it reached the end
\* of the input without handling a row.
C34_Witness ==
    /\ job = "candidates"
    /\ runs = 2 /\ resume /\ ~dry_run
    /\ prev.file # NoFile
    /\ prev.file[1].imported_count = 2
    /\ prev.file[1].last_processed_row = 2
    /\ start_row = 2
    /\ table = {}
    /\ pc = "final_checkpoint" /\ ended = "eof"
    /\ touched = {} /\ run_calls = {}
    /\ calls = NoCalls

(* ------------------------------ C35 ----------------------------------- *)

\* C35: during and after a candidate import that starts with no files, the
\* two files agree at every instant, between the two writes of one save and
\* after a kill there included: the error_count of the checkpoint file is the
\* number of entries of the error-log file, and every error entry the
\* process holds for a row up to the persisted last_processed_row is in the
\* error-log file.
C35_FilesAgreeAtEveryInstant ==
    (job = "candidates" /\ runs = 1 /\ checkpoint_file # NoFile) =>
        /\ checkpoint_file[1].error_count = Len(LogOnDisk)
        /\ \A i \in 1..Len(errors) :
               errors[i].row <= checkpoint_file[1].last_processed_row
                   => \E j \in 1..Len(LogOnDisk) : LogOnDisk[j] = errors[i]

(* ------------------------------ C36 ----------------------------------- *)

\* C36: in the avatar and document importers an entry is appended to the
\* error list exactly when error_count grows by one, so in a run that starts
\* with no files error_count is the number of entries after every row.
C36_ErrorCountIsTheNumberOfEntries ==
    (job \in {"avatars", "documents"} /\ runs = 1 /\ pc # "idle") =>
        checkpoint.error_count = Len(errors)

(* ------------------------------ C37 ----------------------------------- *)

\* At most one record of the table per e-mail, whatever the case of its
\* letters.
OnePerEmail(tbl) ==
    \A r \in tbl : \A s \in tbl : lower(r.email) = lower(s.email) => r = s

\* C37: the candidates table starts with at most one record per
\* case-insensitive e-mail (every table of InitialTables does); whatever row
\* the candidate importer then reads, repeated e-mails in any case included,
\* the step leaves at most one record per case-insensitive e-mail in the
\* table, and every record keeps the e-mail it had.
C37_OneRecordPerEmail ==
    [][OnePerEmail(candidates) =>
          /\ OnePerEmail(candidates')
          /\ \A r \in candidates :
                 \E s \in candidates' : s.id = r.id /\ s.email = r.email]_vars

\* The table held the record "J_D"; the importer read the e-mail "J_D " twice,
\* mapped it to "j_d" and updated that record both times: no record was added.
C37_Witness ==
    /\ OnePerEmail(candidates)
    /\ row_num = 2
    /\ csv[1].email = <<"J", "_", "D", " ">>
    /\ csv[2].email = csv[1].email
    /\ outcome.action = "updated"
    /\ outcome.target = 1
    /\ outcome.before = candidates
    /\ \E r \in candidates : r.id = 1 /\ r.email = <<"J", "_", "D">> /\ r.first_name = "new"
    /\ \A r \in candidates : r.id <= Len(StoredEmailOf)

(* ------------------------------ C38 ----------------------------------- *)

\* At most one record of the documents table per (entity_id, file_path).
OnePerPath(docs) ==
    \A i \in 1..Len(docs) : \A k \in 1..Len(docs) : docs[i] = docs[k] => i = k

\* The step is a row of import_documents that called create_document_record.
RecordsADocument ==
    /\ handled' # handled
    /\ handled'.script = "documents"
    /\ handled'.stored

\* C38: the documents table holds at most one record per (entity_id,
\* file_path).  create_document_record inserts a record only when the table
\* holds none for the pair; when it holds one the call leaves the table as it
\* is and, the select having answered, returns True.
C38_OneRecordPerDocument ==
    [][RecordsADocument =>
          /\ OnePerPath(documents) => OnePerPath(documents')
          /\ Exists(documents, handled'.path) =>
                 /\ documents' = documents
                 /\ handled'.fault # "select" => handled'.result
          /\ ~Exists(documents, handled'.path) =>
                 \/ documents' = documents
                 \/ documents' = Append(documents, DocumentRecord(handled'.path))]_vars

\* Two rows for the same document: the first inserted its record, the second
\* found it and was counted as uploaded without a second record.
C38_Witness ==
    /\ handled.row = 2
    /\ handled.script = "documents"
    /\ handled.stored /\ handled.result
    /\ documents = << DocumentRecord(handled.path) >>
    /\ tally = [uploaded_count |-> 2, error_count |-> 0]

(* ------------------------------ C39 ----------------------------------- *)

\* C39: a row of the avatar or document importer writes its database
\* reference (photo_url, the documents record) only after upload_to_storage
\* returned True for that row's path, and the reference written is that path.
\* When the download or the upload fails the database is not written,
\* uploaded_count stays and error_count grows by one.
C39_ReferenceOnlyAfterTheBlob ==
    [][handled' # handled =>
          /\ (documents' # documents \/ photo_url' # photo_url) =>
                 /\ handled'.downloaded /\ handled'.stored
                 /\ documents' # documents =>
                        documents' = Append(documents, DocumentRecord(handled'.path))
                 /\ photo_url' # photo_url =>
                        photo_url' = [photo_url EXCEPT ![handled'.path.folder] =
                                                           << handled'.path >>]
          /\ ~(handled'.downloaded /\ handled'.stored) =>
                 /\ documents' = documents /\ photo_url' = photo_url
                 /\ tally' = [tally EXCEPT !.error_count = @ + 1]]_vars

\* A first row stored its blob and wrote its reference; the second row's
\* download succeeded and its upload failed: one reference, one upload
\* counted, one error.
C39_Witness ==
    /\ handled.row = 2
    /\ handled.downloaded /\ ~handled.stored
    /\ tally = [uploaded_count |-> 1, error_count |-> 1]
    /\ \/ Len(documents) = 1 /\ handled.script = "documents"
       \/ \E c \in Folders : photo_url[c] # <<>> /\ handled.script = "avatars"
    /\ ~Exists(documents, handled.path)
    /\ photo_url[handled.path.folder] # << handled.path >>

(* ------------------------------ C40 ----------------------------------- *)

\* What the claim gives for a lower-cased, stripped text that is one of the
\* seven keywords.
KeywordStatus(low) ==
    CASE low \in {Un \o Available, NotSpace \o Available} -> << "unavailable" >>
      [] low \in {Employed, Working}                      -> << "employed" >>
      [] OTHER                                            -> << "available" >>

\* C40: normalize_availability_status gives "unavailable" for 'unavailable'
\* and 'not available', "employed" for 'employed' and 'working', "available"
\* for 'available', 'active' and 'looking', whatever the case of the letters
\* and the blanks around the text, and None for a text that holds no keyword.
C40_StatusOfEachKeyword ==
    normalized # <<>> =>
        LET low == strip(lower(status_text))
        IN /\ (\E i \in 1..Len(status_map) : low = status_map[i].key)
                  => normalized.value = KeywordStatus(low)
           /\ (\A i \in 1..Len(status_map) : ~Within(status_map[i].key, low))
                  => normalized.value = <<>>

=============================================================================
